---- MODULE Spec2Model ----
(***************************************************************************)
(* TransitPulse backend: the WebSocket connection manager, the live        *)
(* vehicle position store with its writers and readers, and the stop       *)
(* prediction store with its compute / ingest / query operations.          *)
(*                                                                         *)
(* The specifications share one state:                                     *)
(*   SpecWS, SpecWSFair - app/websocket/manager.py and the socket handlers *)
(*   SpecVS      - live_vehicle_positions: poll cycles, CRUD upsert        *)
(*   SpecPred    - stop_predictions: compute, trip-update ingest, queries  *)
(*   SpecCompute - POST /predictions/compute with a failing statement      *)
(*   SpecRetention(Fair) - age-based purge of live_vehicle_positions       *)
(*   SpecTD(Fair), SpecStatus, SpecNormalizer - trip details and times     *)
(*   SpecLoops(Fair) - the polling loops and the scheduler                 *)
(*   SpecStatic, SpecStaticConc - update_static_data and its callers       *)
(*   SpecFetch   - feed fetches and the in-memory vehicle snapshot         *)
(***************************************************************************)
EXTENDS Integers, Sequences, FiniteSets, TLC

\* ------------------------------------------------------------------ bounds
MaxConns == 2
MaxRoutes == 2

MaxVehicles == 1      \* distinct vehicle ids in the feeds
MaxEntities == 2      \* entities of one feed message
StartTime == 10       \* the clock (minutes) when the model starts
MaxTime == 30         \* the clock stops advancing here
MaxPredictions == 2   \* rows the stop_predictions table can hold
EpochWindow == 3      \* seconds drawn on each side of a boundary of the normalizer
MaxHalfDays == 4      \* the static-update clock stops after this many half days
MaxDownloads == 3     \* downloads of the static feed that are counted
MaxDelay == 400       \* delays range over -MaxDelay..MaxDelay seconds
MaxStopUpdates == 2   \* stop_time_updates of one fetched trip update

Conns == 1..MaxConns
Routes == 1..MaxRoutes
\* the one task that broadcasts: simulate_vehicle_updates, created at startup
Broadcasters == {1}

NULL == -1  \* None / SQL NULL
FREE == 0   \* the lock is not held

VARIABLES
    \* ---- ConnectionManager (app/websocket/manager.py)
    active_connections, \* Dict[route_id, Set[WebSocket]]: function, DOMAIN = keys
    lock,               \* asyncio.Lock: FREE or the task holding it
    \* ---- socket handler tasks (app/main.py websocket_endpoint)
    ws_pc,              \* per socket: "idle" | "accepted" | "open" | "closing" | "done"
    ws_route,           \* the route_id path parameter of the handler
    ws_alive,           \* TRUE while the client side of the socket is open
    \* ---- broadcast calls (ConnectionManager.broadcast)
    bc_pc,              \* per caller: "idle" | "sending" | "returned"
    bc_route,           \* route_id argument
    bc_current,         \* the connection whose send_json is awaited
    bc_disconnected,    \* the local set `disconnected`
    bc_start,           \* the route's set when the pass began
    bc_sent,            \* connections whose send_json returned normally
    \* ---- clock and the live_vehicle_positions table (committed rows)
    now,                \* datetime.utcnow(), in minutes
    store,              \* set of rows of live_vehicle_positions
    \* ---- poll cycles (fetch_and_process_gtfs_rt_data)
    poll_pc,            \* per cycle: "idle" | "processing" | "returned"
    poll_n,             \* entities of the feed walked so far
    poll_tx,            \* the session's uncommitted work: sequence of [op, data]
    poll_result,        \* the value the cycle returned
    poll_error,         \* "none" | "http" | "db" | "integrity" | "decode": what was raised
    \* ---- the stop_predictions table and its API
    stop_predictions,   \* set of rows of stop_predictions (committed)
    clean_pending,      \* a background clean_expired_predictions task is queued
    query_pc,           \* "idle" | "responded"
    query_result,       \* rows the last query returned
    \* ---- GET /trips/trip-details/{trip_id} (app/api/endpoints/trips.py)
    td_pc,              \* "idle" | "fetching" | "responded" | "failed"
    td_elapsed,         \* seconds the awaited fetch_trip_updates has been running
    td_trip_updates,    \* current_trip_updates: <<>> (None) or <<the trip's update>>
    td_stops,           \* stops_with_updates of the response
    \* ---- status labels of one stop, given its delay and predicted time
    st_delay,           \* the delay d in seconds
    st_time,            \* the predicted/actual arrival time t (epoch seconds)
    st_entry,           \* <<>> or <<the trip-details entry of the stop>>
    st_display,         \* "unset" or the status of the stop-prediction display
    \* ---- one call of convert_gtfs_time_to_datetime
    nt_time,            \* gtfs_time
    nt_ref,             \* reference_datetime
    nt_pc,              \* "called" | "returned"
    nt_result,          \* the datetime returned, NULL for None
    \* ---- the periodic loops and the scheduler
    lp_pc,              \* per loop: "run" (its task is awaited) | "sleep"
    lp_outcome,         \* per loop: "none" | "ok" | "failed" | "raised", of the last run
    lp_sleep,           \* per loop: the seconds of the sleep after the last run
    sch_pc,             \* "initial_static" | "initial_realtime" | "loop"
    sch_failed,         \* the jobs whose scheduled run raised in run_async_job
    \* ---- AutoGTFSUpdater.update_static_data for one agency
    su_clock,           \* the time, in half cadence windows (12 h)
    last_static_update, \* self.last_static_update[agency]: NULL or a time
    su_schedule,        \* the version of the static feed in the database, NULL if none
    su_downloads,       \* how many times the static feed was downloaded
    su_result,          \* what the last call returned
    su_last_success,    \* the time of the last successful update, NULL if none
    \* ---- AutoGTFSUpdater's in-memory snapshot and its fetches, for one agency
    vehicle_positions,  \* self.vehicle_positions[agency]: <<>> (no key) or <<entry>>
    fx_call,            \* the last call of a fetch function and what came of it
    fx_latest,          \* <<>> or <<the list of the latest fetch that succeeded>>
    gv_result,          \* <<>> or <<what the last get_current_vehicles returned>>
    \* ---- POST /predictions/compute
    cp_failed_vehicle,  \* the vehicle whose statement raised in the last failed pass, NULL if none
    sc_pc,              \* where each caller of update_static_data stands
    sc_loads            \* the times at which a download-and-load completed, in order

wsVars == <<active_connections, lock, ws_pc, ws_route, ws_alive,
            bc_pc, bc_route, bc_current, bc_disconnected, bc_start, bc_sent>>

dbVars == <<now, store>>
pollVars == <<poll_pc, poll_n, poll_tx, poll_result, poll_error>>

prVars == <<stop_predictions, clean_pending, query_pc, query_result>>

tdVars == <<td_pc, td_elapsed, td_trip_updates, td_stops>>
stVars == <<st_delay, st_time, st_entry, st_display>>
ntVars == <<nt_time, nt_ref, nt_pc, nt_result>>
lpVars == <<lp_pc, lp_outcome, lp_sleep, sch_pc, sch_failed>>
suVars == <<su_clock, last_static_update, su_schedule, su_downloads, su_result,
            su_last_success>>

snVars == <<vehicle_positions, fx_call, fx_latest, gv_result>>

cpVars == <<cp_failed_vehicle>>

scVars == <<sc_pc, sc_loads>>

\* what the actions of one component leave alone in the others
FrameWS == UNCHANGED <<dbVars, pollVars, prVars, tdVars, stVars, ntVars, lpVars, suVars, snVars, cpVars, scVars>>
FrameVS == UNCHANGED <<wsVars, prVars, tdVars, stVars, ntVars, lpVars, suVars, snVars, cpVars, scVars>>
FramePR == UNCHANGED <<wsVars, pollVars, tdVars, stVars, ntVars, lpVars, suVars, snVars, cpVars, scVars>>
FrameTD == UNCHANGED <<wsVars, dbVars, pollVars, prVars, stVars, ntVars, lpVars, suVars, snVars, cpVars, scVars>>
FrameST == UNCHANGED <<wsVars, dbVars, pollVars, prVars, tdVars, ntVars, lpVars, suVars, snVars, cpVars, scVars>>
FrameNT == UNCHANGED <<wsVars, dbVars, pollVars, prVars, tdVars, stVars, lpVars, suVars, snVars, cpVars, scVars>>
FrameLP == UNCHANGED <<wsVars, dbVars, pollVars, prVars, tdVars, stVars, ntVars, suVars, snVars, cpVars, scVars>>
FrameSU == UNCHANGED <<wsVars, dbVars, pollVars, prVars, tdVars, stVars, ntVars, lpVars, snVars, cpVars, scVars>>
FrameSN == UNCHANGED <<wsVars, dbVars, pollVars, prVars, tdVars, stVars, ntVars, lpVars, suVars, cpVars, scVars>>
FrameCP == UNCHANGED <<wsVars, dbVars, pollVars, prVars, tdVars, stVars, ntVars, lpVars, suVars, snVars, scVars>>
FrameSC == UNCHANGED <<wsVars, dbVars, pollVars, prVars, tdVars, stVars, ntVars, lpVars, snVars, cpVars>>

\* ====================================================================
\* ConnectionManager
\* ====================================================================

\* self.active_connections[route_id] if the key exists, else nothing
ConnsOf(r) == IF r \in DOMAIN active_connections THEN active_connections[r] ELSE {}

\* manager.py 14-16: create the route's set if missing, then add the socket
AfterAdd(r, c) ==
    [x \in DOMAIN active_connections \cup {r} |->
        IF x = r THEN ConnsOf(r) \cup {c} ELSE active_connections[x]]

AfterDiscard_KeepEmptyKey(r, c) ==
    IF r \in DOMAIN active_connections
    THEN [active_connections EXCEPT ![r] = @ \ {c}]
    ELSE active_connections

AfterDiscard_DropRoute(r, c) ==
    [x \in DOMAIN active_connections \ {r} |-> active_connections[x]]

\* manager.py 21-24: discard the socket; an empty set drops the route entry
AfterDiscard(r, c) ==
    IF r \in DOMAIN active_connections
    THEN IF active_connections[r] \ {c} = {}
         THEN [x \in DOMAIN active_connections \ {r} |-> active_connections[x]]
         ELSE [active_connections EXCEPT ![r] = @ \ {c}]
    ELSE active_connections

AfterCleanup_RemoveNone(r, disc) == active_connections

\* manager.py 39-40: remove every connection collected in `disconnected`
AfterCleanup(r, disc) ==
    [active_connections EXCEPT ![r] = @ \ disc]

\* ---- socket handler ------------------------------------------------

\* main.py 58 / manager.py 12: a handler starts for a new socket (the slot of a
\* finished handler is reused) and awaits websocket.accept()
HandlerAccept(c, r) ==
    /\ ws_pc[c] \in {"idle", "done"}
    /\ ws_pc' = [ws_pc EXCEPT ![c] = "accepted"]
    /\ ws_route' = [ws_route EXCEPT ![c] = r]
    /\ ws_alive' = [ws_alive EXCEPT ![c] = TRUE]
    /\ UNCHANGED <<active_connections, lock, bc_pc, bc_route, bc_current,
                   bc_disconnected, bc_start, bc_sent>>

ConnectRegister_NoLock(c) ==
    /\ ws_pc[c] = "accepted"
    /\ active_connections' = AfterAdd(ws_route[c], c)
    /\ ws_pc' = [ws_pc EXCEPT ![c] = "open"]
    /\ UNCHANGED <<lock, ws_route, ws_alive, bc_pc, bc_route, bc_current,
                   bc_disconnected, bc_start, bc_sent>>

\* manager.py 13-17: connect() takes the lock and registers the socket
ConnectRegister(c) ==
    /\ ws_pc[c] = "accepted"
    /\ lock = FREE
    /\ active_connections' = AfterAdd(ws_route[c], c)
    /\ ws_pc' = [ws_pc EXCEPT ![c] = "open"]
    /\ UNCHANGED <<lock, ws_route, ws_alive, bc_pc, bc_route, bc_current,
                   bc_disconnected, bc_start, bc_sent>>

\* the client closes its side of the socket; every later send on it raises
ClientClose(c) ==
    /\ ws_pc[c] \in {"accepted", "open"}
    /\ ws_alive[c]
    /\ ws_alive' = [ws_alive EXCEPT ![c] = FALSE]
    /\ UNCHANGED <<active_connections, lock, ws_pc, ws_route, bc_pc, bc_route,
                   bc_current, bc_disconnected, bc_start, bc_sent>>

\* main.py 60-66: the keep-alive send raises on a closed socket; the handler
\* leaves the loop and reaches `finally: await manager.disconnect(...)`
PingFail(c) ==
    /\ ws_pc[c] = "open"
    /\ ~ws_alive[c]
    /\ ws_pc' = [ws_pc EXCEPT ![c] = "closing"]
    /\ UNCHANGED <<active_connections, lock, ws_route, ws_alive, bc_pc, bc_route,
                   bc_current, bc_disconnected, bc_start, bc_sent>>

Disconnect_NoDiscard(c) ==
    /\ ws_pc[c] = "closing"
    /\ lock = FREE
    /\ ws_pc' = [ws_pc EXCEPT ![c] = "done"]
    /\ UNCHANGED <<active_connections, lock, ws_route, ws_alive, bc_pc, bc_route,
                   bc_current, bc_disconnected, bc_start, bc_sent>>

\* manager.py 19-25: disconnect() takes the lock, discards, drops an empty entry
Disconnect(c) ==
    /\ ws_pc[c] = "closing"
    /\ lock = FREE
    /\ active_connections' = AfterDiscard(ws_route[c], c)
    /\ ws_pc' = [ws_pc EXCEPT ![c] = "done"]
    /\ UNCHANGED <<lock, ws_route, ws_alive, bc_pc, bc_route, bc_current,
                   bc_disconnected, bc_start, bc_sent>>

\* ---- broadcast -----------------------------------------------------

\* manager.py 28-33: take the lock; a missing route (or an empty set) returns at
\* once, otherwise the loop starts and the call suspends in the first send_json
BroadcastStart(b, r) ==
    /\ bc_pc[b] = "idle"
    /\ lock = FREE
    /\ bc_route' = [bc_route EXCEPT ![b] = r]
    /\ bc_start' = [bc_start EXCEPT ![b] = ConnsOf(r)]
    /\ bc_disconnected' = [bc_disconnected EXCEPT ![b] = {}]
    /\ bc_sent' = [bc_sent EXCEPT ![b] = {}]
    /\ IF ConnsOf(r) = {}
       THEN /\ bc_pc' = [bc_pc EXCEPT ![b] = "returned"]
            /\ UNCHANGED <<lock, bc_current>>
       ELSE /\ \E c \in ConnsOf(r) : bc_current' = [bc_current EXCEPT ![b] = c]
            /\ lock' = b
            /\ bc_pc' = [bc_pc EXCEPT ![b] = "sending"]
    /\ UNCHANGED <<active_connections, ws_pc, ws_route, ws_alive>>

\* manager.py 31-40: the awaited send_json returns or raises; the loop goes on
\* with the next member of the set, or ends: cleanup, release the lock, return
BroadcastStep(b, ok, sent, disc) ==
    LET rest == ConnsOf(bc_route[b]) \ (sent \cup disc)
    IN  /\ bc_sent' = [bc_sent EXCEPT ![b] = sent]
        /\ bc_disconnected' = [bc_disconnected EXCEPT ![b] = disc]
        /\ IF rest # {}
           THEN /\ \E c \in rest : bc_current' = [bc_current EXCEPT ![b] = c]
                /\ UNCHANGED <<active_connections, lock, bc_pc>>
           ELSE /\ active_connections' = AfterCleanup(bc_route[b], disc)
                /\ lock' = FREE
                /\ bc_pc' = [bc_pc EXCEPT ![b] = "returned"]
                /\ bc_current' = [bc_current EXCEPT ![b] = 1]
        /\ UNCHANGED <<ws_pc, ws_route, ws_alive, bc_route, bc_start>>

\* manager.py 33: send_json returned normally
BroadcastSendOk(b) ==
    /\ bc_pc[b] = "sending"
    /\ ws_alive[bc_current[b]]
    /\ BroadcastStep(b, TRUE, bc_sent[b] \cup {bc_current[b]}, bc_disconnected[b])

\* manager.py 34-36: send_json raised; the connection is marked for removal
BroadcastSendFail(b) ==
    /\ bc_pc[b] = "sending"
    /\ ~ws_alive[bc_current[b]]
    /\ BroadcastStep(b, FALSE, bc_sent[b], bc_disconnected[b] \cup {bc_current[b]})

\* gtfs.py 452-455: the awaited broadcast() returns to simulate_vehicle_updates,
\* whose loop goes on; the locals of the finished call are gone
BroadcastReturn(b) ==
    /\ bc_pc[b] = "returned"
    /\ bc_pc' = [bc_pc EXCEPT ![b] = "idle"]
    /\ bc_route' = [bc_route EXCEPT ![b] = 1]
    /\ bc_disconnected' = [bc_disconnected EXCEPT ![b] = {}]
    /\ bc_start' = [bc_start EXCEPT ![b] = {}]
    /\ bc_sent' = [bc_sent EXCEPT ![b] = {}]
    /\ UNCHANGED <<active_connections, lock, ws_pc, ws_route, ws_alive, bc_current>>

\* ====================================================================
\* live_vehicle_positions: feed ingestion, CRUD upsert, readers
\* ====================================================================

VehicleIds == 1..MaxVehicles
\* the two processes that run poll cycles against the same database:
\* 1 = scheduler.py's 30-second job, 2 = gtfs_rt_processor.py's main_loop
Pollers == {1, 2}

\* ---- feed entities (gtfs_realtime_pb2.FeedEntity); NULL = HasField is false

\* an entity carrying every field, with a feed timestamp older than the clock
FullEntity(v) ==
    [entity_id |-> v, has_vehicle |-> TRUE, vehicle_id |-> v, timestamp |-> 0,
     trip_id |-> 1, route_id |-> 1, latitude |-> 37, longitude |-> 122,
     bearing |-> 90, speed |-> 10, current_status |-> 2, congestion_level |-> 1,
     occupancy_status |-> 5, stop_id |-> 1]

\* an entity with a position only: no vehicle descriptor (the id falls back to
\* entity.id), no timestamp, no trip
BareEntity ==
    [entity_id |-> 1, has_vehicle |-> TRUE, vehicle_id |-> NULL, timestamp |-> NULL,
     trip_id |-> NULL, route_id |-> NULL, latitude |-> 38, longitude |-> 123,
     bearing |-> NULL, speed |-> NULL, current_status |-> NULL,
     congestion_level |-> NULL, occupancy_status |-> NULL, stop_id |-> NULL]

\* a vehicle entity without a position, and an entity that is not a vehicle
NoPositionEntity == [BareEntity EXCEPT !.latitude = NULL, !.longitude = NULL]
OtherEntity == [BareEntity EXCEPT !.has_vehicle = FALSE]

FeedEntities ==
    {FullEntity(v) : v \in VehicleIds} \cup {BareEntity, NoPositionEntity, OtherEntity}

\* gtfs_rt_processor.py 112-125: the decoded vehicle_data of an entity at time t
Decode(e, t) ==
    [timestamp |-> IF e.timestamp # NULL THEN e.timestamp ELSE t,
     vehicle_id |-> IF e.vehicle_id # NULL THEN e.vehicle_id ELSE e.entity_id,
     trip_id |-> e.trip_id, route_id |-> e.route_id,
     latitude |-> e.latitude, longitude |-> e.longitude,
     bearing |-> e.bearing, speed |-> e.speed,
     current_status |-> e.current_status, congestion_level |-> e.congestion_level,
     occupancy_status |-> e.occupancy_status, stop_id |-> e.stop_id]

\* schemas/vehicle.py 5-17: timestamp, vehicle_id, latitude, longitude are required
Validates(d) ==
    /\ d.timestamp # NULL /\ d.vehicle_id # NULL
    /\ d.latitude # NULL /\ d.longitude # NULL

\* ---- the table ------------------------------------------------------

\* models/vehicle.py 7: the autoincrement primary key (only freshness is kept)
FreshId(S) == CHOOSE i \in 1..(Cardinality(S) + 1) : \A r \in S : r.id # i

WithId(d, i) ==
    [id |-> i, timestamp |-> d.timestamp, vehicle_id |-> d.vehicle_id,
     trip_id |-> d.trip_id, route_id |-> d.route_id,
     latitude |-> d.latitude, longitude |-> d.longitude,
     bearing |-> d.bearing, speed |-> d.speed,
     current_status |-> d.current_status, congestion_level |-> d.congestion_level,
     occupancy_status |-> d.occupancy_status, stop_id |-> d.stop_id]

RowsOf(S, v) == {r \in S : r.vehicle_id = v}

\* gtfs_rt_processor.py 136-153: UPDATE ... WHERE vehicle_id = v SET every column
UpdateRows(S, d) ==
    {IF r.vehicle_id = d.vehicle_id THEN WithId(d, r.id) ELSE r : r \in S}

\* gtfs_rt_processor.py 157-158: INSERT of a new row
InsertRow(S, d) == S \cup {WithId(d, FreshId(S))}

\* models/vehicle.py 9: unique=True on vehicle_id rejects the INSERT
UniqueViolation(S, d) == RowsOf(S, d.vehicle_id) # {}

\* the session's work applied in statement order; "failed" when an INSERT is
\* rejected (IntegrityError), in which case nothing of it is kept
RECURSIVE ApplyTx(_, _)
ApplyTx(S, tx) ==
    IF tx = <<>> THEN [ok |-> TRUE, rows |-> S]
    ELSE LET o == Head(tx)
         IN  IF o.op = "update" THEN ApplyTx(UpdateRows(S, o.data), Tail(tx))
             ELSE IF UniqueViolation(S, o.data) THEN [ok |-> FALSE, rows |-> S]
             ELSE ApplyTx(InsertRow(S, o.data), Tail(tx))

\* vehicle ids whose row an open session has updated and so holds locked
LockedBy(p) == {poll_tx[p][i].data.vehicle_id :
                   i \in {j \in 1..Len(poll_tx[p]) : poll_tx[p][j].op = "update"}}
LockedByOthers(p) == UNION {LockedBy(q) : q \in Pollers \ {p}}
LockedByAny == UNION {LockedBy(q) : q \in Pollers}

\* ---- poll cycle -----------------------------------------------------

\* gtfs_rt_processor.py 87-101: the GET succeeded and the feed parsed; a session
\* is opened
PollFetchOk(p) ==
    /\ poll_pc[p] = "idle"
    /\ poll_pc' = [poll_pc EXCEPT ![p] = "processing"]
    /\ poll_n' = [poll_n EXCEPT ![p] = 0]
    /\ poll_tx' = [poll_tx EXCEPT ![p] = <<>>]
    /\ UNCHANGED <<now, store, poll_result, poll_error>>

\* gtfs_rt_processor.py 89-95, 167-176: the GET raised or answered non-2xx
PollFetchFail(p) ==
    /\ poll_pc[p] = "idle"
    /\ poll_pc' = [poll_pc EXCEPT ![p] = "returned"]
    /\ poll_result' = [poll_result EXCEPT ![p] = FALSE]
    /\ poll_error' = [poll_error EXCEPT ![p] = "http"]
    /\ UNCHANGED <<now, store, poll_n, poll_tx>>

PollEntity_AutoCommit(p, e) ==
    LET d == Decode(e, now)
    IN  /\ poll_pc[p] = "processing"
        /\ poll_n[p] < MaxEntities
        /\ poll_n' = [poll_n EXCEPT ![p] = @ + 1]
        /\ IF ~e.has_vehicle \/ ~Validates(d)
           THEN UNCHANGED <<poll_tx, store>>
           ELSE /\ d.vehicle_id \notin LockedByOthers(p)
                /\ IF RowsOf(store, d.vehicle_id) # {}
                   THEN store' = UpdateRows(store, d)
                   ELSE store' = InsertRow(store, d)
                /\ UNCHANGED poll_tx
        /\ UNCHANGED <<now, poll_pc, poll_result, poll_error>>

\* gtfs_rt_processor.py 105-161: one turn of the loop over feed.entity: decode,
\* validate (a failure skips the entity), UPDATE the vehicle's row and, when
\* rowcount is 0, db.add a new row (pending until commit: autoflush is off)
PollEntity(p, e) ==
    LET d == Decode(e, now)
    IN  /\ poll_pc[p] = "processing"
        /\ poll_n[p] < MaxEntities
        /\ poll_n' = [poll_n EXCEPT ![p] = @ + 1]
        /\ IF ~e.has_vehicle \/ ~Validates(d)
           THEN UNCHANGED poll_tx
           ELSE /\ d.vehicle_id \notin LockedByOthers(p)
                /\ poll_tx' = [poll_tx EXCEPT ![p] = Append(@,
                      [op |-> IF RowsOf(store, d.vehicle_id) # {} THEN "update" ELSE "add",
                       data |-> d])]
        /\ UNCHANGED <<now, store, poll_pc, poll_result, poll_error>>

\* gtfs_rt_processor.py 163-165, 177-181: the loop is over; commit flushes the
\* pending rows. An IntegrityError rolls the whole session back and the cycle
\* returns False
PollCommit(p) ==
    LET res == ApplyTx(store, poll_tx[p])
    IN  /\ poll_pc[p] = "processing"
        /\ poll_pc' = [poll_pc EXCEPT ![p] = "returned"]
        /\ store' = IF res.ok THEN res.rows ELSE store
        /\ poll_result' = [poll_result EXCEPT ![p] = res.ok]
        /\ poll_error' = [poll_error EXCEPT ![p] = IF res.ok THEN "none" ELSE "integrity"]
        /\ poll_n' = [poll_n EXCEPT ![p] = 0]
        /\ poll_tx' = [poll_tx EXCEPT ![p] = <<>>]
        /\ UNCHANGED now

\* gtfs_rt_processor.py 101, 177-181: a statement raises part-way (connection
\* lost, ...); the session is closed without commit and the cycle returns False
PollFail(p) ==
    /\ poll_pc[p] = "processing"
    /\ poll_pc' = [poll_pc EXCEPT ![p] = "returned"]
    /\ poll_result' = [poll_result EXCEPT ![p] = FALSE]
    /\ poll_error' = [poll_error EXCEPT ![p] = "db"]
    /\ poll_n' = [poll_n EXCEPT ![p] = 0]
    /\ poll_tx' = [poll_tx EXCEPT ![p] = <<>>]
    /\ UNCHANGED <<now, store>>

\* a feed timestamp past year 9999, which datetime.fromtimestamp rejects (the
\* value itself is beyond the integers used here)
OutOfRangeTimestamp == -2

\* an entity that is complete but for its timestamp, which cannot be decoded
MalformedEntities == {[FullEntity(v) EXCEPT !.timestamp = OutOfRangeTimestamp] : v \in VehicleIds}

\* gtfs_rt_processor.py 113: datetime.fromtimestamp(vehicle.timestamp) raises
DecodeRaises(e) == e.has_vehicle /\ e.timestamp = OutOfRangeTimestamp

\* gtfs_rt_processor.py 105-125, 177-181: building vehicle_data of an entity
\* raises, outside the try of the validation; the exception leaves the loop and
\* the session (closed without commit) and the cycle returns False
PollDecodeRaises(p, e) ==
    /\ poll_pc[p] = "processing"
    /\ poll_n[p] < MaxEntities
    /\ DecodeRaises(e)
    /\ poll_pc' = [poll_pc EXCEPT ![p] = "returned"]
    /\ poll_result' = [poll_result EXCEPT ![p] = FALSE]
    /\ poll_error' = [poll_error EXCEPT ![p] = "decode"]
    /\ poll_n' = [poll_n EXCEPT ![p] = 0]
    /\ poll_tx' = [poll_tx EXCEPT ![p] = <<>>]
    /\ UNCHANGED <<now, store>>

\* gtfs_rt_processor.py 193-206 / scheduler.py 47-53: the caller takes the
\* result; the next cycle starts from scratch
PollReturn(p) ==
    /\ poll_pc[p] = "returned"
    /\ poll_pc' = [poll_pc EXCEPT ![p] = "idle"]
    /\ poll_result' = [poll_result EXCEPT ![p] = FALSE]
    /\ poll_error' = [poll_error EXCEPT ![p] = "none"]
    /\ UNCHANGED <<now, store, poll_n, poll_tx>>

\* ---- CRUD upsert ----------------------------------------------------

\* vehicle_crud.py 67-80: the values of the INSERT; columns not named stay NULL
CrudValues(v, route, lat, lon, speed, bearing, trip, ts) ==
    [timestamp |-> IF ts = NULL THEN now ELSE ts, vehicle_id |-> v,
     trip_id |-> trip, route_id |-> route, latitude |-> lat, longitude |-> lon,
     bearing |-> bearing, speed |-> speed, current_status |-> NULL,
     congestion_level |-> NULL, occupancy_status |-> NULL, stop_id |-> NULL]

\* vehicle_crud.py 83-94: ON CONFLICT (vehicle_id) DO UPDATE SET the seven
\* columns listed in set_
ConflictUpdate(r, d) ==
    [r EXCEPT !.route_id = d.route_id, !.latitude = d.latitude,
              !.longitude = d.longitude, !.speed = d.speed, !.bearing = d.bearing,
              !.trip_id = d.trip_id, !.timestamp = d.timestamp]

\* vehicle_crud.py 39-103: create_or_update_vehicle_position, one statement and
\* its commit; it waits while another session holds the row
CrudUpsert(v, trip) ==
    LET d == CrudValues(v, 1, 37, 122, NULL, NULL, trip, NULL)
    IN  /\ v \notin LockedByAny
        /\ store' = IF RowsOf(store, v) # {}
                    THEN {IF r.vehicle_id = v THEN ConflictUpdate(r, d) ELSE r : r \in store}
                    ELSE InsertRow(store, d)
        /\ store' # store
        /\ UNCHANGED <<now, poll_pc, poll_n, poll_tx, poll_result, poll_error>>

\* ---- age-based retention ----------------------------------------------

\* vehicle_crud.py 143: older_than_minutes defaults to 30
RetentionMinutes == 30

\* vehicle_crud.py 157-159: the rows a purge at time t keeps
KeptRows(S, t) == {r \in S : ~(r.timestamp < t - RetentionMinutes)}

\* vehicle_crud.py 143-163: delete_old_vehicle_positions, one DELETE and its
\* commit. No task, job or endpoint of the repository calls it (scheduler.py
\* 55-65 schedules the static update and the vehicle poll only), so it runs
\* only when something outside the repository calls it
DeleteOldVehiclePositions ==
    /\ store' = KeptRows(store, now)
    /\ store' # store
    /\ UNCHANGED <<now, pollVars>>

\* a retention window passes on the clock
RetentionTick ==
    /\ now <= MaxTime + RetentionMinutes
    /\ now' = now + RetentionMinutes
    /\ UNCHANGED <<store, pollVars>>

\* ====================================================================
\* stop_predictions: compute, trip-update ingestion, cleanup, queries
\* ====================================================================

DayMinutes == 1440
ComputedTTL == 30     \* predictions_crud.py 189: expires 30 minutes after compute
TripUpdateTTL == 10   \* gtfs_trip_updates_processor.py 159: expires in 10 minutes

Stops == {1, 2}

\* the vehicles whose positions the compute reads: one, on trip 1 or on no trip
TrackedVehicles == {1}

\* gtfs_stop_times of trip 1, ordered by stop_sequence; arrival_time is a time
\* of day in minutes, NULL when the row has none
StopTimes(trip) ==
    IF trip = 1
    THEN <<[stop_id |-> 1, stop_sequence |-> 1, arrival_time |-> 20],
           [stop_id |-> 2, stop_sequence |-> 2, arrival_time |-> NULL],
           [stop_id |-> 3, stop_sequence |-> 3, arrival_time |-> NULL]>>
    ELSE <<>>

\* models/predictions.py 34: the uuid4 primary key; only that it tells apart
\* rows of equal content is kept
FreshPredictionId(S, row) ==
    CHOOSE i \in 1..(Cardinality(S) + 1) :
        /\ [row EXCEPT !.id = i] \notin S
        /\ \A j \in 1..(i - 1) : [row EXCEPT !.id = j] \in S

\* session.add of every row of a sequence, in order
RECURSIVE AddAll(_, _)
AddAll(S, rows) ==
    IF rows = <<>> THEN S
    ELSE AddAll(S \cup {[Head(rows) EXCEPT !.id = FreshPredictionId(S, Head(rows))]}, Tail(rows))

\* predictions_crud.py 163-191: the prediction of one stop_time of a vehicle's
\* trip at current_time t, or nothing
ComputedFor(vehicle, st, t) ==
    IF st.arrival_time = NULL THEN <<>>
    ELSE LET combined == (t \div DayMinutes) * DayMinutes + st.arrival_time
             scheduled == IF combined < t THEN combined + DayMinutes ELSE combined
             predicted == scheduled + 0
         IN  IF predicted > t
             THEN <<[id |-> 0, stop_id |-> st.stop_id, route_id |-> vehicle.route_id,
                     trip_id |-> vehicle.trip_id, vehicle_id |-> vehicle.vehicle_id,
                     predicted_arrival_time |-> predicted,
                     scheduled_arrival_time |-> scheduled,
                     arrival_delay_seconds |-> 0, confidence_level |-> 70,
                     prediction_source |-> "computed",
                     stop_sequence |-> st.stop_sequence,
                     created_at |-> t, expires_at |-> t + ComputedTTL]>>
             ELSE <<>>

RECURSIVE ComputedForStops(_, _, _)
ComputedForStops(vehicle, sts, t) ==
    IF sts = <<>> THEN <<>>
    ELSE ComputedFor(vehicle, Head(sts), t) \o ComputedForStops(vehicle, Tail(sts), t)

\* predictions_crud.py 114-193: compute_predictions_from_vehicles over a set of
\* vehicle rows (taken in any order); vehicles without trip or route are left out
RECURSIVE ComputePredictions(_, _)
ComputePredictions(vehicles, t) ==
    IF vehicles = {} THEN <<>>
    ELSE LET v == CHOOSE x \in vehicles : TRUE
             own == IF v.trip_id = NULL \/ v.route_id = NULL THEN <<>>
                    ELSE ComputedForStops(v, StopTimes(v.trip_id), t)
         IN  own \o ComputePredictions(vehicles \ {v}, t)

\* predictions_crud.py 100-111: DELETE the rows whose expires_at is before now
AfterClean(S, t) == {r \in S : ~(r.expires_at # NULL /\ r.expires_at < t)}

ActiveAt_AtOrAfter(S, t) == {r \in S : r.expires_at = NULL \/ r.expires_at >= t}

\* predictions_crud.py 42-45, 67-70, 89-92, 220: the "active" filter of the
\* four queries: expires_at IS NULL OR expires_at > now
ActiveAt(S, t) == {r \in S : r.expires_at = NULL \/ r.expires_at > t}

\* ORDER BY predicted_arrival_time (NULLs last) with ties in any order
ArrivalLE(a, b) ==
    \/ b.predicted_arrival_time = NULL
    \/ /\ a.predicted_arrival_time # NULL
       /\ a.predicted_arrival_time <= b.predicted_arrival_time

\* ORDER BY stop_id, predicted_arrival_time
StopArrivalLE(a, b) ==
    \/ a.stop_id < b.stop_id
    \/ a.stop_id = b.stop_id /\ ArrivalLE(a, b)

\* ORDER BY ... LIMIT n: every set of rows the statement may return
Limited(S, n, LE(_, _)) ==
    {T \in SUBSET S :
        /\ Cardinality(T) = IF Cardinality(S) < n THEN Cardinality(S) ELSE n
        /\ \A a \in T : \A b \in S \ T : LE(a, b)}

\* predictions_crud.py 32-55: by stop, optionally one route
PredictionsForStop(stop, limit, route) ==
    Limited({r \in ActiveAt(stop_predictions, now) :
                r.stop_id = stop /\ (route = NULL \/ r.route_id = route)},
            limit, ArrivalLE)

\* predictions_crud.py 58-78: by route
PredictionsForRoute(route, limit) ==
    Limited({r \in ActiveAt(stop_predictions, now) : r.route_id = route},
            limit, StopArrivalLE)

\* predictions_crud.py 81-97: by vehicle (no limit)
PredictionsForVehicle(v) ==
    {{r \in ActiveAt(stop_predictions, now) : r.vehicle_id = v}}

\* predictions_crud.py 196-226: the SQL of get_predictions_with_stop_info; the
\* LEFT JOINs on stops and routes keep every prediction row
PredictionsWithStopInfo(stop, limit) ==
    Limited({r \in ActiveAt(stop_predictions, now) : r.stop_id = stop},
            limit, ArrivalLE)

\* the clock advances
Tick ==
    /\ now < MaxTime
    /\ now' = now + TripUpdateTTL
    /\ UNCHANGED <<store, prVars>>

\* endpoints/predictions.py 180-216: POST /predictions/compute queues the
\* cleanup as a background task, computes from the vehicle rows, adds and commits
ComputeNewPredictions(route) ==
    LET vehicles == {v \in store : route = NULL \/ v.route_id = route}
        new == ComputePredictions(vehicles, now)
    IN  /\ Cardinality(stop_predictions) + Len(new) <= MaxPredictions
        /\ stop_predictions' = AddAll(stop_predictions, new)
        /\ clean_pending' = TRUE
        /\ UNCHANGED <<now, store, query_pc, query_result>>

\* the vehicles of the compute passes that cover more than one vehicle
ComputeVehicles == {1, 2}

\* the vehicles a pass reaches the statements of (predictions_crud.py 133-135)
PassVehicles(route) ==
    {v \in store : /\ route = NULL \/ v.route_id = route
                   /\ v.trip_id # NULL /\ v.route_id # NULL}

\* endpoints/predictions.py 192-216, predictions_crud.py 133-151: a statement
\* run for one vehicle of the pass raises; nothing in the loop catches it, the
\* endpoint's `except Exception` answers 500 before any db.add or commit, and
\* the queued cleanup does not run
ComputeNewPredictionsFails(route, failing) ==
    /\ \E v \in PassVehicles(route) : v.vehicle_id = failing
    /\ cp_failed_vehicle' = failing
    /\ UNCHANGED <<dbVars, prVars>>

\* endpoints/predictions.py 194: the queued clean_expired_predictions runs
BackgroundClean ==
    /\ clean_pending
    /\ clean_pending' = FALSE
    /\ stop_predictions' = AfterClean(stop_predictions, now)
    /\ UNCHANGED <<now, store, query_pc, query_result>>

\* endpoints/predictions.py 290: the cleanup endpoint
CleanExpired ==
    /\ stop_predictions' = AfterClean(stop_predictions, now)
    /\ stop_predictions' # stop_predictions
    /\ UNCHANGED <<now, store, clean_pending, query_pc, query_result>>

\* ---- trip-update ingestion -----------------------------------------

\* a decoded TripUpdate: trip 1 of a route (NULL when the feed names none) with
\* stop_time_updates for the listed stop ids (NULL: the update has no stop_id)
TripUpdate(route, stops) ==
    [trip_id |-> 1, route_id |-> route,
     stop_time_updates |->
        [i \in 1..Len(stops) |->
            [stop_id |-> stops[i], stop_sequence |-> i, arrival_delay |-> 120,
             arrival_time |-> NULL]]]

TripUpdateFeeds ==
    {<<>>} \cup {<<TripUpdate(route, stops)>> :
                    route \in {1, NULL}, stops \in {<<1>>, <<1, 2>>, <<NULL, 2>>}}

\* gtfs_trip_updates_processor.py 146-169: the rows added for one trip update
RECURSIVE RowsOfUpdates(_, _, _)
RowsOfUpdates(tu, stus, t) ==
    IF stus = <<>> THEN <<>>
    ELSE LET su == Head(stus)
             row == [id |-> 0, stop_id |-> su.stop_id, route_id |-> tu.route_id,
                     trip_id |-> tu.trip_id, vehicle_id |-> NULL,
                     predicted_arrival_time |-> su.arrival_time,
                     scheduled_arrival_time |-> NULL,
                     arrival_delay_seconds |->
                        IF su.arrival_delay = NULL THEN 0 ELSE su.arrival_delay,
                     confidence_level |-> 80, prediction_source |-> "gtfs_rt",
                     stop_sequence |-> su.stop_sequence,
                     created_at |-> t, expires_at |-> t + TripUpdateTTL]
         IN  (IF su.stop_id # NULL THEN <<row>> ELSE <<>>)
                \o RowsOfUpdates(tu, Tail(stus), t)

RECURSIVE RowsOfFeed(_, _)
RowsOfFeed(feed, t) ==
    IF feed = <<>> THEN <<>>
    ELSE RowsOfUpdates(Head(feed), Head(feed).stop_time_updates, t)
            \o RowsOfFeed(Tail(feed), t)

\* models/predictions.py 37-39: stop_id, route_id, trip_id are NOT NULL
NotNullViolation(rows) ==
    \E i \in 1..Len(rows) :
        rows[i].stop_id = NULL \/ rows[i].route_id = NULL \/ rows[i].trip_id = NULL

\* gtfs_trip_updates_processor.py 71-194: one run of fetch_and_process_trip_updates
\* on a fetched feed: an empty feed returns at once; otherwise one row is added
\* per stop_time_update with a stop_id and the session commits, or rolls back
\* when the database rejects a row
IngestTripUpdates(feed) ==
    LET new == RowsOfFeed(feed, now)
    IN  /\ Cardinality(stop_predictions) + Len(new) <= MaxPredictions
        /\ stop_predictions' =
              IF feed = <<>> \/ NotNullViolation(new) THEN stop_predictions
              ELSE AddAll(stop_predictions, new)
        /\ stop_predictions' # stop_predictions
        /\ UNCHANGED <<now, store, clean_pending, query_pc, query_result>>

\* predictions_crud.py 20-29: create_prediction of a caller-made record, whose
\* expires_at is optional
CreatePrediction(stop, expires) ==
    /\ Cardinality(stop_predictions) < MaxPredictions
    /\ stop_predictions' = AddAll(stop_predictions,
          <<[id |-> 0, stop_id |-> stop, route_id |-> 1, trip_id |-> 1,
             vehicle_id |-> NULL, predicted_arrival_time |-> NULL,
             scheduled_arrival_time |-> NULL, arrival_delay_seconds |-> 0,
             confidence_level |-> 80, prediction_source |-> "computed",
             stop_sequence |-> NULL, created_at |-> now, expires_at |-> expires]>>)
    /\ UNCHANGED <<now, store, clean_pending, query_pc, query_result>>

\* ---- queries ---------------------------------------------------------

\* endpoints/predictions.py 32-177: one of the GET endpoints (or a direct caller
\* of get_predictions_for_stop) runs its query and answers
Query(kind, key, limit) ==
    /\ query_pc = "idle"
    /\ query_pc' = "responded"
    /\ query_result' \in
          CASE kind = "stop_info" -> PredictionsWithStopInfo(key, limit)
            [] kind = "stop" -> PredictionsForStop(key, limit, NULL)
            [] kind = "stop_route" -> PredictionsForStop(key, limit, 1)
            [] kind = "route" -> PredictionsForRoute(key, limit)
            [] OTHER -> PredictionsForVehicle(key)
    /\ UNCHANGED <<now, store, stop_predictions, clean_pending>>

QueryKinds == {"stop_info", "stop", "stop_route", "route", "vehicle"}

\* the response has been delivered
QueryReturn ==
    /\ query_pc = "responded"
    /\ query_pc' = "idle"
    /\ query_result' = {}
    /\ UNCHANGED <<now, store, stop_predictions, clean_pending>>

\* ====================================================================
\* Time normalizer (app/api/endpoints/trips.py)
\* ====================================================================
\* A naive datetime is the count of seconds of its wall clock since
\* 1970-01-01 00:00:00: its date is the count div 86400 and its time of day
\* the count mod 86400.  Values are within 32 bits, where datetime's year
\* range is never left.

SecondsPerDay == 86400
SecondsPerHour == 3600
SecondsPerMinute == 60

\* pytz America/Los_Angeles: daylight time of 2026 from 2026-03-08 10:00 UTC
\* to 2026-11-01 09:00 UTC, standard time before and after
DstStart == 1772964000
DstEnd == 1793523600
StandardOffset == -28800
DaylightOffset == -25200

\* utcoffset of the zone at a UTC instant
UtcOffset(v) == IF DstStart <= v /\ v < DstEnd THEN DaylightOffset ELSE StandardOffset

\* pytz localize(naive) with its default is_dst=False, then timestamp(): the
\* instant of a wall-clock time; a wall-clock time of the repeated hour is
\* taken as standard time, one of the skipped hour likewise
LocalToEpoch(dt) ==
    IF dt - StandardOffset >= DstEnd \/ dt - StandardOffset < DstStart
    THEN dt - StandardOffset
    ELSE IF dt - DaylightOffset >= DstStart /\ dt - DaylightOffset < DstEnd
         THEN dt - DaylightOffset
         ELSE dt - StandardOffset

\* datetime.time(hour, minute, second) raises ValueError outside its ranges
ValidTime(h, m, sec) == h \in 0..23 /\ m \in 0..59 /\ sec \in 0..59

\* Python's floor division and modulo by a positive number
FloorDiv(a, b) == IF a >= 0 THEN a \div b ELSE -((-a + b - 1) \div b)
FloorMod(a, b) == a - b * FloorDiv(a, b)

MinuteOf_NoModulo(gtfs_time) == FloorDiv(gtfs_time, SecondsPerMinute)

\* trips.py 656: minutes = (gtfs_time % 3600) // 60
MinuteOf(gtfs_time) ==
    FloorDiv(FloorMod(gtfs_time, SecondsPerHour), SecondsPerMinute)

\* trips.py 632-671: convert_gtfs_time_to_datetime; NULL is the None returned
\* after a caught exception
convert_gtfs_time_to_datetime(gtfs_time, reference_datetime) ==
    IF gtfs_time > SecondsPerDay
    THEN gtfs_time + UtcOffset(gtfs_time)
    ELSE LET hours == FloorDiv(gtfs_time, SecondsPerHour)
             minutes == MinuteOf(gtfs_time)
             seconds == FloorMod(gtfs_time, SecondsPerMinute)
             base_date == FloorDiv(reference_datetime, SecondsPerDay)
             next_day == hours >= 24
             h == IF next_day THEN hours - 24 ELSE hours
             d == IF next_day THEN base_date + 1 ELSE base_date
         IN  IF ValidTime(h, minutes, seconds)
             THEN d * SecondsPerDay + h * SecondsPerHour
                     + minutes * SecondsPerMinute + seconds
             ELSE NULL

\* strftime('%H:%M:%S'): the time of day of a datetime, as seconds
TimeOfDay(dt) == FloorMod(dt, SecondsPerDay)

\* trips.py 51: timedelta(hours=6)
SixHours == 6 * SecondsPerHour

\* trips.py 21-54: compute_scheduled_datetime of a scheduled stop time (a
\* datetime.time, as seconds of the day; NULL for None) at a reference; a
\* datetime.time has no hour past 23, so the overflow branch never runs
compute_scheduled_datetime(gtfs_time, reference) ==
    IF gtfs_time = NULL THEN reference
    ELSE LET scheduled_datetime ==
                 FloorDiv(reference, SecondsPerDay) * SecondsPerDay + gtfs_time
         IN  IF scheduled_datetime < reference - SixHours
             THEN scheduled_datetime + SecondsPerDay
             ELSE scheduled_datetime

\* ====================================================================
\* Trip details: schedule fused with the trip-update feed (trips.py)
\* ====================================================================

\* trips.py 176: current_time = datetime.now(), as wall clock and as timestamp()
TripNow == 1793500000
TripNowLocal == TripNow + UtcOffset(TripNow)

\* Python truthiness of an optional integer
Truthy(x) == x # NULL /\ x # 0

\* trips.py 237-247: the delay label of an upcoming stop
DelayStatus(arrival_delay) ==
    IF Truthy(arrival_delay)
    THEN IF arrival_delay > 300 THEN "delayed"
         ELSE IF arrival_delay < -180 THEN "early"
         ELSE "on_time"
    ELSE "on_time"

\* trips.py 178-195: the entry of a stop before any real-time data
ScheduledEntry(stop) ==
    [stop_sequence |-> stop.stop_sequence, stop_id |-> stop.stop_id,
     scheduled_arrival |-> stop.arrival_time,
     predicted_arrival |-> NULL, actual_arrival |-> NULL,
     arrival_delay |-> NULL, status |-> "no_data", delay_status |-> "none"]

\* trips.py 200-247: the entry after the matching stop_time_update is applied
UpdatedEntry(stop, su) ==
    LET base == [ScheduledEntry(stop) EXCEPT !.arrival_delay = su.arrival_delay]
        dt == convert_gtfs_time_to_datetime(su.arrival_time, TripNowLocal)
    IN  IF ~Truthy(su.arrival_time) THEN base
        ELSE IF su.arrival_time <= TripNow
        THEN [base EXCEPT !.status = "passed",
                          !.actual_arrival = IF dt # NULL THEN TimeOfDay(dt) ELSE NULL]
        ELSE [base EXCEPT !.status = "upcoming",
                          !.predicted_arrival = IF dt # NULL THEN TimeOfDay(dt) ELSE NULL,
                          !.delay_status = IF dt # NULL THEN DelayStatus(su.arrival_delay)
                                           ELSE "none"]

MatchIndex_FirstUpdate(stus, stop_id) == IF stus = <<>> THEN 0 ELSE 1

\* trips.py 198-199, 268: the first stop_time_update of the stop, 0 if none
MatchIndex(stus, stop_id) ==
    IF \E i \in 1..Len(stus) : stus[i].stop_id = stop_id
    THEN CHOOSE i \in 1..Len(stus) :
            /\ stus[i].stop_id = stop_id
            /\ \A j \in 1..(i - 1) : stus[j].stop_id # stop_id
    ELSE 0

\* trips.py 173-270: stops_with_updates, one entry per scheduled stop in order
MergeStops(stops, update) ==
    [k \in 1..Len(stops) |->
        LET i == IF update = <<>> THEN 0
                 ELSE MatchIndex(update[1].stop_time_updates, stops[k].stop_id)
        IN  IF i = 0 THEN ScheduledEntry(stops[k])
            ELSE UpdatedEntry(stops[k], update[1].stop_time_updates[i])]

\* trips.py 143-158: the first update of the fetched list that is of the trip,
\* as <<update>>, or <<>> for None
RECURSIVE UpdateOfTrip(_, _)
UpdateOfTrip(trip_updates, trip_id) ==
    IF trip_updates = <<>> THEN <<>>
    ELSE IF Head(trip_updates).trip_id = trip_id THEN <<Head(trip_updates)>>
    ELSE UpdateOfTrip(Tail(trip_updates), trip_id)

\* ---- what fetch_trip_updates may return -------------------------------

TdDelays == {NULL, 120}
\* arrival.time of the feed: absent, the present, ten minutes ahead, and a
\* value that is no time (the field is a signed 64-bit integer)
TdTimes == {NULL, TripNow, TripNow + 600, -5}

StopTimeUpdates ==
    [stop_id : 1..3, arrival_delay : TdDelays, arrival_time : TdTimes]

SeqsUpTo(S, n) == UNION {[1..k -> S] : k \in 0..n}

\* auto_gtfs_updater.py 264-317: the list fetch_trip_updates returns: nothing,
\* or one update, of trip 1 or of another trip
FetchedTripUpdates ==
    {<<>>} \cup {<<[trip_id |-> t, stop_time_updates |-> stus]>> :
                    t \in {1, 2}, stus \in SeqsUpTo(StopTimeUpdates, MaxStopUpdates)}

FetchTimeout == 5

\* trips.py 69-131: the request reads the trip, its stops and its vehicle, then
\* awaits fetch_trip_updates under wait_for; an unknown trip raises
TripDetailsRequest(trip_id) ==
    /\ td_pc = "idle"
    /\ td_pc' = IF StopTimes(trip_id) = <<>> THEN "failed" ELSE "fetching"
    /\ td_elapsed' = 0
    /\ UNCHANGED <<td_trip_updates, td_stops>>

\* trips.py 133-270: the fetch returns within the timeout (None and an empty
\* list alike give no update); the handler picks the trip's update, merges and
\* answers
FetchReturns ==
    /\ td_pc = "fetching"
    /\ td_elapsed < FetchTimeout
    /\ \E trip_updates \in FetchedTripUpdates :
          td_trip_updates' = UpdateOfTrip(trip_updates, 1)
    /\ td_stops' = MergeStops(StopTimes(1), td_trip_updates')
    /\ td_pc' = "responded"
    /\ UNCHANGED td_elapsed

\* a second passes while the fetch is awaited
FetchWaits ==
    /\ td_pc = "fetching"
    /\ td_elapsed < FetchTimeout
    /\ td_elapsed' = td_elapsed + 1
    /\ UNCHANGED <<td_pc, td_trip_updates, td_stops>>

FetchTimesOut_NoTimeout ==
    /\ td_pc = "fetching"
    /\ td_elapsed > FetchTimeout
    /\ td_trip_updates' = <<>>
    /\ td_stops' = MergeStops(StopTimes(1), <<>>)
    /\ td_pc' = "responded"
    /\ UNCHANGED td_elapsed

\* trips.py 139-163: wait_for cancels the fetch at the timeout and raises
\* TimeoutError, which the handler catches; it merges without updates
FetchTimesOut ==
    /\ td_pc = "fetching"
    /\ td_elapsed = FetchTimeout
    /\ td_trip_updates' = <<>>
    /\ td_stops' = MergeStops(StopTimes(1), <<>>)
    /\ td_pc' = "responded"
    /\ UNCHANGED td_elapsed

\* the response has been sent
TripDetailsDone ==
    /\ td_pc \in {"responded", "failed"}
    /\ td_pc' = "idle"
    /\ td_elapsed' = 0
    /\ td_trip_updates' = <<>>
    /\ td_stops' = <<>>

\* ====================================================================
\* Status labels by delay: trip details and stop-prediction display
\* ====================================================================

DelayRange == (-MaxDelay)..MaxDelay

\* predictions_crud.py 253-262: the status of a displayed prediction; a NULL
\* arrival_delay_seconds is falsy like 0 and is passed as 0
DisplayStatus(arrival_delay_seconds, is_real_time) ==
    IF arrival_delay_seconds # 0
    THEN IF arrival_delay_seconds > 300 THEN "delayed"
         ELSE IF arrival_delay_seconds < -60 THEN "early"
         ELSE "on_time"
    ELSE IF ~is_real_time THEN "scheduled" ELSE "predicted"

\* trips.py 198-247: the trip-details entry of the first scheduled stop when
\* its stop_time_update has the delay and the arrival time
ClassifyTripDetails ==
    /\ st_entry = <<>>
    /\ st_entry' = <<UpdatedEntry(StopTimes(1)[1],
                      [stop_id |-> 1, arrival_delay |-> st_delay, arrival_time |-> st_time])>>
    /\ UNCHANGED <<st_delay, st_time, st_display>>

\* predictions_crud.py 253-262: the display status of a stored prediction with
\* the delay
ClassifyDisplay(is_real_time) ==
    /\ st_display = "unset"
    /\ st_display' = DisplayStatus(st_delay, is_real_time)
    /\ UNCHANGED <<st_delay, st_time, st_entry>>

InitST ==
    /\ st_delay \in DelayRange
    /\ st_time \in {TripNow - 1, TripNow, TripNow + 1}
    /\ st_entry = <<>>
    /\ st_display = "unset"

\* ====================================================================
\* The time normalizer as a function of its inputs
\* ====================================================================

\* every second of a service day, and the seconds around each boundary of
\* the function: below 0, above 86400, the start of daylight time, the whole
\* repeated hour at its end, and the present
NormalizerInputs ==
    (-EpochWindow..SecondsPerDay + EpochWindow)
        \cup ((DstStart - EpochWindow)..(DstStart + EpochWindow))
        \cup ((DstEnd - SecondsPerHour - EpochWindow)..(DstEnd + EpochWindow))
        \cup {TripNow}

\* reference datetimes: the present, and the last second of its day
ReferenceDatetimes ==
    {TripNowLocal, (FloorDiv(TripNowLocal, SecondsPerDay) + 1) * SecondsPerDay - 1}

InitNT ==
    /\ nt_time \in NormalizerInputs
    /\ nt_ref \in ReferenceDatetimes
    /\ nt_pc = "called"
    /\ nt_result = NULL

\* trips.py 632-671: the call returns
NormalizerReturns ==
    /\ nt_pc = "called"
    /\ nt_pc' = "returned"
    /\ nt_result' = convert_gtfs_time_to_datetime(nt_time, nt_ref)
    /\ UNCHANGED <<nt_time, nt_ref>>

\* ====================================================================
\* Periodic loops: auto_gtfs_updater, gtfs_rt_processor.main_loop, scheduler
\* ====================================================================

\* start_realtime_updates and start_daily_static_updates (gathered by
\* auto_gtfs_updater.main) and main_loop of gtfs_rt_processor
Loops == {"realtime", "static", "main_loop"}

RealtimeInterval == 30      \* auto_gtfs_updater.py 62
RealtimeBackoff == 5        \* auto_gtfs_updater.py 243
StaticInterval == 86400     \* auto_gtfs_updater.py 61: timedelta(hours=24)
StaticBackoff == 3600       \* auto_gtfs_updater.py 262
FetchInterval == 30         \* gtfs_rt_processor.py 190: FETCH_INTERVAL_SECONDS

\* how one run of a loop's task can end: update_vehicle_positions returns None
\* whether or not its fetch worked; update_static_data returns True or False;
\* fetch_and_process_gtfs_rt_data returns True or False and catches what it raises
Outcomes(l) ==
    IF l = "main_loop" THEN {"ok", "failed"} ELSE {"ok", "failed", "raised"}

\* seconds one run of a task takes
ProcessingTimes == {0, 12, 45}

Max(a, b) == IF a >= b THEN a ELSE b

\* auto_gtfs_updater.py 235-243, 254-262 and gtfs_rt_processor.py 196-206: the
\* sleep a loop takes after a run
SleepAfter(l, outcome, processing_time) ==
    CASE l = "realtime" -> IF outcome = "raised" THEN RealtimeBackoff ELSE RealtimeInterval
      [] l = "static" -> IF outcome = "raised" THEN StaticBackoff ELSE StaticInterval
      [] OTHER -> Max(0, FetchInterval - processing_time)

\* the awaited task of a loop ends and the loop goes to sleep
LoopRunReturns(l, outcome, processing_time) ==
    /\ lp_pc[l] = "run"
    /\ lp_pc' = [lp_pc EXCEPT ![l] = "sleep"]
    /\ lp_outcome' = [lp_outcome EXCEPT ![l] = outcome]
    /\ lp_sleep' = [lp_sleep EXCEPT ![l] = SleepAfter(l, outcome, processing_time)]
    /\ UNCHANGED <<sch_pc, sch_failed>>

\* the sleep ends and the loop runs its task again
LoopWakes(l) ==
    /\ lp_pc[l] = "sleep"
    /\ lp_pc' = [lp_pc EXCEPT ![l] = "run"]
    /\ UNCHANGED <<lp_outcome, lp_sleep, sch_pc, sch_failed>>

\* scheduler.py 90: the awaited initial static job ends (it catches what the
\* update raises)
SchedInitialStaticReturns ==
    /\ sch_pc = "initial_static"
    /\ sch_pc' = "initial_realtime"
    /\ UNCHANGED <<lp_pc, lp_outcome, lp_sleep, sch_failed>>

\* scheduler.py 91: the awaited initial real-time job ends
SchedInitialRealtimeReturns ==
    /\ sch_pc = "initial_realtime"
    /\ sch_pc' = "loop"
    /\ UNCHANGED <<lp_pc, lp_outcome, lp_sleep, sch_failed>>

\* scheduler.py 67-76, 94-95: run_pending finds the job due and calls
\* run_async_job, whose run_until_complete is called inside the running event
\* loop of start_scheduler and raises RuntimeError; the error is logged and the
\* job's coroutine never runs
SchedRunPending(job) ==
    /\ sch_pc = "loop"
    /\ sch_failed' = sch_failed \cup {job}
    /\ UNCHANGED <<lp_pc, lp_outcome, lp_sleep, sch_pc>>

\* ====================================================================
\* Static feed update behind its freshness gate (auto_gtfs_updater.py)
\* ====================================================================

\* the clock ticks in halves of the cadence window
HalfWindow == StaticInterval \div 2

\* versions of the agency's static feed
FeedVersions == {1, 2}

\* auto_gtfs_updater.py 94-97: last_update and now - last_update < interval
IsFresh(last_update, t) ==
    last_update # NULL /\ (t - last_update) * HalfWindow < StaticInterval

\* auto_gtfs_updater.py 86-121: one call of update_static_data for the agency;
\* the download and the load each work or fail
UpdateStaticData(download_ok, load_ok, version) ==
    IF IsFresh(last_static_update, su_clock)
    THEN /\ su_result' = TRUE
         /\ UNCHANGED <<su_clock, last_static_update, su_schedule, su_downloads,
                        su_last_success>>
    ELSE /\ su_downloads < MaxDownloads
         /\ su_downloads' = su_downloads + 1
         /\ su_result' = (download_ok /\ load_ok)
         /\ IF download_ok /\ load_ok
            THEN /\ su_schedule' = version
                 /\ last_static_update' = su_clock
                 /\ su_last_success' = su_clock
            ELSE UNCHANGED <<su_schedule, last_static_update, su_last_success>>
         /\ UNCHANGED su_clock

\* half a cadence window passes
StaticTick ==
    /\ su_clock < MaxHalfDays
    /\ su_clock' = su_clock + 1
    /\ UNCHANGED <<last_static_update, su_schedule, su_downloads, su_result,
                   su_last_success>>

\* auto_gtfs_updater.py 64, 347: the process restarts and a new AutoGTFSUpdater
\* is made, with an empty last_static_update; the database keeps the schedule
ProcessRestart ==
    /\ last_static_update # NULL
    /\ last_static_update' = NULL
    /\ su_result' = FALSE
    /\ UNCHANGED <<su_clock, su_schedule, su_downloads, su_last_success>>

\* ---- update_static_data as coroutines of one event loop ------------

\* the coroutines that call update_static_data on the shared auto_updater:
\* main.py 83 (startup task), auto_gtfs_updater.py 257 (daily loop),
\* gtfs.py 607 (manual trigger)
StaticCallers == {"startup", "daily", "manual"}

\* a caller suspended in the download or in the load
InProgress == {c \in StaticCallers : sc_pc[c] \in {"downloading", "loading"}}

\* auto_gtfs_updater.py 88-100: the gate is read; a fresh agency returns True,
\* otherwise the call suspends in `await self.download_gtfs_static(...)`
StaticCallStart(c) ==
    /\ sc_pc[c] = "idle"
    /\ IF IsFresh(last_static_update, su_clock)
       THEN /\ su_result' = TRUE
            /\ sc_pc' = [sc_pc EXCEPT ![c] = IF c = "startup" THEN "done" ELSE "idle"]
            /\ UNCHANGED su_downloads
       ELSE /\ su_downloads < MaxDownloads
            /\ su_downloads' = su_downloads + 1
            /\ sc_pc' = [sc_pc EXCEPT ![c] = "downloading"]
            /\ UNCHANGED su_result
    /\ UNCHANGED <<su_clock, last_static_update, su_schedule, su_last_success, sc_loads>>

\* auto_gtfs_updater.py 100-112: the download returns the bytes, or nothing and
\* the call returns False; with the bytes the call suspends in the load
StaticDownloadDone(c, download_ok) ==
    /\ sc_pc[c] = "downloading"
    /\ IF download_ok
       THEN /\ sc_pc' = [sc_pc EXCEPT ![c] = "loading"]
            /\ UNCHANGED su_result
       ELSE /\ sc_pc' = [sc_pc EXCEPT ![c] = IF c = "startup" THEN "done" ELSE "idle"]
            /\ su_result' = FALSE
    /\ UNCHANGED <<su_clock, last_static_update, su_schedule, su_downloads,
                   su_last_success, sc_loads>>

\* auto_gtfs_updater.py 112-121: the load commits and last_static_update is
\* set, or it raises and the call returns False
StaticLoadDone(c, load_ok, version) ==
    /\ sc_pc[c] = "loading"
    /\ sc_pc' = [sc_pc EXCEPT ![c] = IF c = "startup" THEN "done" ELSE "idle"]
    /\ su_result' = load_ok
    /\ IF load_ok
       THEN /\ su_schedule' = version
            /\ last_static_update' = su_clock
            /\ su_last_success' = su_clock
            /\ sc_loads' = Append(sc_loads, su_clock)
       ELSE UNCHANGED <<su_schedule, last_static_update, su_last_success, sc_loads>>
    /\ UNCHANGED <<su_clock, su_downloads>>

\* ====================================================================
\* Feed fetches and the in-memory vehicle snapshot (auto_gtfs_updater.py)
\* ====================================================================

\* what the remote feed does with one GET
Responses == {"ok", "non_2xx", "transport", "timeout", "garbled"}

\* the exception a response makes the fetch code raise: raise_for_status on a
\* non-2xx status, client.get on a transport failure or a timeout,
\* ParseFromString on bytes that are no FeedMessage
RaisedBy(response) ==
    CASE response = "non_2xx" -> "HTTPStatusError"
      [] response = "transport" -> "ConnectError"
      [] response = "timeout" -> "ReadTimeout"
      [] response = "garbled" -> "DecodeError"
      [] OTHER -> "none"

\* the classes an exception is an instance of (httpx, google.protobuf)
Bases(exc) ==
    CASE exc = "HTTPStatusError" -> {"HTTPStatusError", "HTTPError", "Exception"}
      [] exc = "ConnectError" ->
            {"ConnectError", "TransportError", "RequestError", "HTTPError", "Exception"}
      [] exc = "ReadTimeout" ->
            {"ReadTimeout", "TimeoutException", "TransportError", "RequestError",
             "HTTPError", "Exception"}
      [] exc = "DecodeError" -> {"DecodeError", "Exception"}
      [] OTHER -> {}

\* gtfs_rt_processor.py 167, 174, 177: the except clauses around the cycle
RtProcessorHandlers == {"HTTPStatusError", "RequestError", "Exception"}

\* auto_gtfs_updater.py 167, 178 and 318, 322: `except Exception`
UpdaterHandlers == {"Exception"}

Caught_ExactClass(exc, handlers) == exc \in handlers

\* an except clause catches the instances of its class and of its subclasses
Caught(exc, handlers) == Bases(exc) \cap handlers # {}

\* one row of the list fetch_realtime_vehicles builds (150-161); vehicle 2
\* runs no trip, so its route_id is None
FetchedVehicle(v) == [vehicle_id |-> v, route_id |-> IF v = 1 THEN 1 ELSE NULL]

\* the lists a feed can decode to, the empty one included
FetchedLists ==
    {<<>>, <<FetchedVehicle(1)>>, <<FetchedVehicle(2)>>,
     <<FetchedVehicle(1), FetchedVehicle(2)>>}

\* trip updates of a feed (auto_gtfs_updater.py 301-310)
FetchedUpdateLists == {<<>>, <<[trip_id |-> 1, route_id |-> 1]>>}

\* what a fetch function hands to its caller: a list (ok), None (not ok), or
\* an exception that leaves the function (raised)
FetchOutcome(fn, response, list, handlers) ==
    LET exc == RaisedBy(response)
    IN  IF exc = "none"
        THEN [fn |-> fn, response |-> response, raised |-> "none",
              ok |-> TRUE, value |-> list]
        ELSE [fn |-> fn, response |-> response,
              raised |-> IF Caught(exc, handlers) THEN "none" ELSE exc,
              ok |-> FALSE, value |-> <<>>]

\* auto_gtfs_updater.py 123-180: fetch_realtime_vehicles of the agency
fetch_realtime_vehicles(response, list) ==
    FetchOutcome("fetch_realtime_vehicles", response, list, UpdaterHandlers)

\* auto_gtfs_updater.py 264-324: fetch_trip_updates of the agency
fetch_trip_updates(response, list) ==
    FetchOutcome("fetch_trip_updates", response, list, UpdaterHandlers)

\* auto_gtfs_updater.py 205-215: update_vehicle_positions; `if vehicles:` is
\* false for None and for an empty list
UpdateVehiclePositions(response, list) ==
    LET vehicles == fetch_realtime_vehicles(response, list)
    IN  /\ fx_call' = vehicles
        /\ fx_latest' = IF vehicles.ok THEN <<vehicles.value>> ELSE fx_latest
        /\ vehicle_positions' =
              IF vehicles.raised = "none" /\ vehicles.ok /\ vehicles.value # <<>>
              THEN <<[timestamp |-> now, vehicles |-> vehicles.value]>>
              ELSE vehicle_positions
        \* what an earlier reader was given has been delivered
        /\ gv_result' = <<>>

\* trips.py 139-142: a caller awaits fetch_trip_updates
FetchTripUpdatesCall(response, list) ==
    /\ fx_call' = fetch_trip_updates(response, list)
    /\ fx_call' # fx_call
    /\ UNCHANGED <<vehicle_positions, fx_latest, gv_result>>

\* the rows of a list whose route_id is the one asked for
RECURSIVE OfRoute(_, _)
OfRoute(list, route_id) ==
    IF list = <<>> THEN <<>>
    ELSE (IF Head(list).route_id = route_id THEN <<Head(list)>> ELSE <<>>)
            \o OfRoute(Tail(list), route_id)

\* auto_gtfs_updater.py 217-225: get_current_vehicles, optionally of one route
GetCurrentVehicles(route_id) ==
    LET vehicles == IF vehicle_positions = <<>> THEN <<>>
                    ELSE vehicle_positions[1].vehicles
    IN  /\ gv_result' = <<IF route_id # NULL THEN OfRoute(vehicles, route_id)
                          ELSE vehicles>>
        /\ gv_result' # gv_result
        /\ UNCHANGED <<vehicle_positions, fx_call, fx_latest>>

\* gtfs_rt_processor.py 87-99, 167-181: the GET or the parse of a cycle raises;
\* the except clauses turn it into the return value False
PollFetchRaises(p, response) ==
    LET exc == RaisedBy(response)
    IN  /\ poll_pc[p] = "idle"
        /\ exc # "none"
        /\ poll_pc' = [poll_pc EXCEPT ![p] =
              IF Caught(exc, RtProcessorHandlers) THEN "returned" ELSE "raised"]
        /\ poll_result' = [poll_result EXCEPT ![p] = FALSE]
        /\ poll_error' = [poll_error EXCEPT ![p] = "http"]
        /\ UNCHANGED <<now, store, poll_n, poll_tx>>

\* ====================================================================
\* Initial state and specifications
\* ====================================================================

\* everything but the inputs of the pure functions
InitProgram ==
    /\ active_connections = <<>>
    /\ lock = FREE
    /\ ws_pc = [c \in Conns |-> "idle"]
    /\ ws_route = [c \in Conns |-> 1]
    /\ ws_alive = [c \in Conns |-> FALSE]
    /\ bc_pc = [b \in Broadcasters |-> "idle"]
    /\ bc_route = [b \in Broadcasters |-> 1]
    /\ bc_current = [b \in Broadcasters |-> 1]
    /\ bc_disconnected = [b \in Broadcasters |-> {}]
    /\ bc_start = [b \in Broadcasters |-> {}]
    /\ bc_sent = [b \in Broadcasters |-> {}]
    /\ now = StartTime
    /\ store = {}
    /\ poll_pc = [p \in Pollers |-> "idle"]
    /\ poll_n = [p \in Pollers |-> 0]
    /\ poll_tx = [p \in Pollers |-> <<>>]
    /\ poll_result = [p \in Pollers |-> FALSE]
    /\ poll_error = [p \in Pollers |-> "none"]
    /\ stop_predictions = {}
    /\ clean_pending = FALSE
    /\ query_pc = "idle"
    /\ query_result = {}
    /\ td_pc = "idle"
    /\ td_elapsed = 0
    /\ td_trip_updates = <<>>
    /\ td_stops = <<>>
    /\ lp_pc = [l \in Loops |-> "run"]
    /\ lp_outcome = [l \in Loops |-> "none"]
    /\ lp_sleep = [l \in Loops |-> 0]
    /\ sch_pc = "initial_static"
    /\ sch_failed = {}
    /\ su_clock = 0
    /\ last_static_update = NULL
    /\ su_schedule = NULL
    /\ su_downloads = 0
    /\ su_result = FALSE
    /\ su_last_success = NULL
    /\ sc_pc = [c \in StaticCallers |-> "idle"]
    /\ sc_loads = <<>>
    /\ cp_failed_vehicle = NULL
    /\ vehicle_positions = <<>>
    /\ fx_call = [fn |-> "none", response |-> "ok", raised |-> "none",
                  ok |-> FALSE, value |-> <<>>]
    /\ fx_latest = <<>>
    /\ gv_result = <<>>

Init ==
    /\ InitProgram
    /\ st_delay = 0
    /\ st_time = TripNow
    /\ st_entry = <<>>
    /\ st_display = "unset"
    /\ nt_time = 0
    /\ nt_ref = TripNowLocal
    /\ nt_pc = "returned"
    /\ nt_result = convert_gtfs_time_to_datetime(0, TripNowLocal)

\* the program's initial state with the inputs of the status labels drawn
InitStatus ==
    /\ InitProgram
    /\ InitST
    /\ nt_time = 0
    /\ nt_ref = TripNowLocal
    /\ nt_pc = "returned"
    /\ nt_result = convert_gtfs_time_to_datetime(0, TripNowLocal)

\* the program's initial state with the inputs of the normalizer drawn
InitNormalizer ==
    /\ InitProgram
    /\ st_delay = 0
    /\ st_time = TripNow
    /\ st_entry = <<>>
    /\ st_display = "unset"
    /\ InitNT

vars == <<wsVars, dbVars, pollVars, prVars, tdVars, stVars, ntVars, lpVars, suVars, snVars, cpVars, scVars>>

NextWS ==
    \/ \E c \in Conns, r \in Routes : HandlerAccept(c, r) /\ FrameWS
    \/ \E c \in Conns : ConnectRegister(c) /\ FrameWS
    \/ \E c \in Conns : ClientClose(c) /\ FrameWS
    \/ \E c \in Conns : PingFail(c) /\ FrameWS
    \/ \E c \in Conns : Disconnect(c) /\ FrameWS
    \/ \E b \in Broadcasters, r \in Routes : BroadcastStart(b, r) /\ FrameWS
    \/ \E b \in Broadcasters : BroadcastSendOk(b) /\ FrameWS
    \/ \E b \in Broadcasters : BroadcastSendFail(b) /\ FrameWS
    \/ \E b \in Broadcasters : BroadcastReturn(b) /\ FrameWS

SpecWS == Init /\ [][NextWS]_vars

\* the event loop runs every ready coroutine: the 10-second sleep of a handler
\* ends and its ping is sent (main.py 62-63), an awaited send_json of a
\* broadcast returns or raises, and simulate_vehicle_updates goes on after a
\* broadcast; asyncio.Lock wakes its waiters in FIFO order, so a handler
\* waiting in disconnect() gets the lock although broadcasts keep taking it
SpecWSFair ==
    /\ SpecWS
    /\ \A c \in Conns : WF_vars(PingFail(c) /\ FrameWS)
    /\ \A c \in Conns : SF_vars(Disconnect(c) /\ FrameWS)
    /\ \A b \in Broadcasters :
          WF_vars((BroadcastSendOk(b) \/ BroadcastSendFail(b)) /\ FrameWS)
    /\ \A b \in Broadcasters : WF_vars(BroadcastReturn(b) /\ FrameWS)

NextVS ==
    \/ \E p \in Pollers : PollFetchOk(p) /\ FrameVS
    \/ \E p \in Pollers : PollFetchFail(p) /\ FrameVS
    \/ \E p \in Pollers, e \in FeedEntities : PollEntity(p, e) /\ FrameVS
    \/ \E p \in Pollers, e \in MalformedEntities : PollDecodeRaises(p, e) /\ FrameVS
    \/ \E p \in Pollers : PollCommit(p) /\ FrameVS
    \/ \E p \in Pollers : PollFail(p) /\ FrameVS
    \/ \E p \in Pollers : PollReturn(p) /\ FrameVS
    \/ \E v \in VehicleIds : CrudUpsert(v, 1) /\ FrameVS

SpecVS == Init /\ [][NextVS]_vars

NextPred ==
    \/ Tick /\ FramePR
    \/ \E v \in TrackedVehicles, trip \in {NULL, 1} : CrudUpsert(v, trip) /\ FrameVS
    \/ \E route \in {NULL, 1} : ComputeNewPredictions(route) /\ FramePR
    \/ BackgroundClean /\ FramePR
    \/ CleanExpired /\ FramePR
    \/ \E feed \in TripUpdateFeeds : IngestTripUpdates(feed) /\ FramePR
    \/ \E stop \in Stops, expires \in {NULL, now} : CreatePrediction(stop, expires) /\ FramePR
    \/ \E kind \in QueryKinds, key \in {1, 2}, limit \in {1, 10} :
          Query(kind, key, limit) /\ FramePR
    \/ QueryReturn /\ FramePR

SpecPred == Init /\ [][NextPred]_vars

NextTD ==
    \/ \E trip_id \in {1, 2} : TripDetailsRequest(trip_id) /\ FrameTD
    \/ FetchReturns /\ FrameTD
    \/ FetchWaits /\ FrameTD
    \/ FetchTimesOut /\ FrameTD
    \/ TripDetailsDone /\ FrameTD

SpecTD == Init /\ [][NextTD]_vars

\* the event loop's clock advances and the timer of wait_for fires; the
\* remote feed is under no obligation to answer
SpecTDFair ==
    /\ SpecTD
    /\ WF_vars(FetchWaits /\ FrameTD)
    /\ WF_vars(FetchTimesOut /\ FrameTD)

NextStatus ==
    \/ ClassifyTripDetails /\ FrameST
    \/ \E is_real_time \in BOOLEAN : ClassifyDisplay(is_real_time) /\ FrameST

SpecStatus == InitStatus /\ [][NextStatus]_vars

NextNormalizer == NormalizerReturns /\ FrameNT

SpecNormalizer == InitNormalizer /\ [][NextNormalizer]_vars

NextLoops ==
    \/ \E l \in Loops, t \in ProcessingTimes : \E outcome \in Outcomes(l) :
          LoopRunReturns(l, outcome, t) /\ FrameLP
    \/ \E l \in Loops : LoopWakes(l) /\ FrameLP
    \/ SchedInitialStaticReturns /\ FrameLP
    \/ SchedInitialRealtimeReturns /\ FrameLP
    \/ \E job \in {"static", "realtime"} : SchedRunPending(job) /\ FrameLP

SpecLoops == Init /\ [][NextLoops]_vars

\* the event loop runs every task that can run and every sleep ends; the
\* real-time fetches end (their HTTP clients have timeouts); a static update
\* is under no obligation to end
SpecLoopsFair ==
    /\ SpecLoops
    /\ \A l \in Loops : WF_vars(LoopWakes(l) /\ FrameLP)
    /\ \A l \in {"realtime", "main_loop"} :
          WF_vars(\E t \in ProcessingTimes : \E outcome \in Outcomes(l) :
                    LoopRunReturns(l, outcome, t) /\ FrameLP)
    /\ WF_vars(SchedInitialRealtimeReturns /\ FrameLP)
    /\ WF_vars(\E job \in {"static", "realtime"} : SchedRunPending(job) /\ FrameLP)

\* the real-time loop's updates, the readers of the snapshot, the callers of
\* fetch_trip_updates, and the poll cycles of gtfs_rt_processor's main_loop
NextFetch ==
    \/ \E response \in Responses, list \in FetchedLists :
          UpdateVehiclePositions(response, list) /\ FrameSN
    \/ \E response \in Responses, list \in FetchedUpdateLists :
          FetchTripUpdatesCall(response, list) /\ FrameSN
    \/ \E route_id \in {NULL, 1} : GetCurrentVehicles(route_id) /\ FrameSN
    \/ PollFetchOk(2) /\ FrameVS
    \/ \E response \in Responses : PollFetchRaises(2, response) /\ FrameVS
    \/ \E e \in {FullEntity(1), NoPositionEntity} : PollEntity(2, e) /\ FrameVS
    \/ PollCommit(2) /\ FrameVS
    \/ PollFail(2) /\ FrameVS
    \/ PollReturn(2) /\ FrameVS

SpecFetch == Init /\ [][NextFetch]_vars

\* compute passes over the rows of two vehicles
NextCompute ==
    \/ Tick /\ FramePR
    \/ \E v \in ComputeVehicles, trip \in {NULL, 1} : CrudUpsert(v, trip) /\ FrameVS
    \/ \E route \in {NULL, 1} : ComputeNewPredictions(route) /\ FramePR
    \/ \E route \in {NULL, 1}, failing \in ComputeVehicles :
          ComputeNewPredictionsFails(route, failing) /\ FrameCP
    \/ BackgroundClean /\ FramePR

SpecCompute == Init /\ [][NextCompute]_vars

\* upserts of two vehicles, the clock, and calls of the purge
NextRetention ==
    \/ \E v \in ComputeVehicles, trip \in {NULL, 1} : CrudUpsert(v, trip) /\ FrameVS
    \/ RetentionTick /\ FrameVS
    \/ DeleteOldVehiclePositions /\ FrameVS

SpecRetention == Init /\ [][NextRetention]_vars

\* time passes; no task is there to run the purge, and no vehicle is obliged
\* to report again
SpecRetentionFair == SpecRetention /\ WF_vars(RetentionTick /\ FrameVS)

NextStaticConc ==
    \/ \E c \in StaticCallers : StaticCallStart(c) /\ FrameSC
    \/ \E c \in StaticCallers, download_ok \in BOOLEAN :
          StaticDownloadDone(c, download_ok) /\ FrameSC
    \/ \E c \in StaticCallers, load_ok \in BOOLEAN, version \in FeedVersions :
          StaticLoadDone(c, load_ok, version) /\ FrameSC
    \/ StaticTick /\ FrameSU

SpecStaticConc == Init /\ [][NextStaticConc]_vars

\* ====================================================================
\* Properties of the connection manager
\* ====================================================================

\* C1: when a broadcast over N connections returns and exactly one send, to k,
\* raised, the route's set is the set the pass began with minus k, and every
\* other connection of that set was sent the message.
C1_OnlyFailedConnectionRemoved ==
    [][\A b \in Broadcasters :
          (/\ bc_pc[b] = "sending"
           /\ bc_pc'[b] = "returned"
           /\ Cardinality(bc_disconnected'[b]) = 1)
          => /\ bc_route[b] \in DOMAIN active_connections'
             /\ active_connections'[bc_route[b]] = bc_start[b] \ bc_disconnected'[b]
             /\ bc_sent'[b] = bc_start[b] \ bc_disconnected'[b]]_vars

\* a broadcast over at least two connections has returned, one send raised, the
\* others were sent the message and are still registered
C1_Witness ==
    \E b \in Broadcasters :
        /\ bc_pc[b] = "returned"
        /\ Cardinality(bc_start[b]) >= 2
        /\ Cardinality(bc_disconnected[b]) = 1
        /\ bc_sent[b] = bc_start[b] \ bc_disconnected[b]
        /\ ConnsOf(bc_route[b]) = bc_sent[b]

\* C2: the lock is never held while a send to a socket is awaited.
C2_LockFreeDuringSend ==
    \A b \in Broadcasters : bc_pc[b] = "sending" => lock = FREE

\* C3: while a broadcast is in its pass (suspended in a send), the set it
\* iterates is the set the pass began with, and the connections whose send
\* failed are still in it: they are removed only when the pass is over.
C3_SetStableDuringPass ==
    \A b \in Broadcasters :
        bc_pc[b] = "sending" =>
            /\ bc_route[b] \in DOMAIN active_connections
            /\ active_connections[bc_route[b]] = bc_start[b]
            /\ bc_disconnected[b] \subseteq active_connections[bc_route[b]]

\* a pass is suspended in a send after an earlier send failed, while the
\* handler of the failed socket is waiting in disconnect() for the same route
C3_Witness ==
    \E b \in Broadcasters, c \in Conns :
        /\ bc_pc[b] = "sending"
        /\ c \in bc_disconnected[b]
        /\ ws_pc[c] = "closing"
        /\ ws_route[c] = bc_route[b]

\* C4: a completed disconnect(conn, route_id) leaves conn out of the route's
\* set, drops the route key if the set became empty, and changes neither the
\* other members of the route nor any other route.
C4_DisconnectEffect ==
    [][\A c \in Conns :
          (ws_pc[c] = "closing" /\ ws_pc'[c] = "done")
          => LET r == ws_route[c]
                 rest == ConnsOf(r) \ {c}
             IN  /\ (rest = {}) => r \notin DOMAIN active_connections'
                 /\ (rest # {}) => /\ r \in DOMAIN active_connections'
                                   /\ active_connections'[r] = rest
                 /\ \A x \in Routes \ {r} :
                       /\ (x \in DOMAIN active_connections') = (x \in DOMAIN active_connections)
                       /\ x \in DOMAIN active_connections =>
                              active_connections'[x] = active_connections[x]]_vars

\* a handler has finished its disconnect, its route (of which it was the last
\* member) is no longer a key, and another route still has its connections
C4_Witness ==
    \E c \in Conns :
        /\ ws_pc[c] = "done"
        /\ ws_route[c] \notin DOMAIN active_connections
        /\ \E x \in DOMAIN active_connections : active_connections[x] # {}

\* ====================================================================
\* Properties of the vehicle position store
\* ====================================================================

\* vehicle_crud.py 23-37: get_live_vehicle_position_by_id (byId)
byId(S, v) == IF RowsOf(S, v) = {} THEN {} ELSE {CHOOSE r \in RowsOf(S, v) : TRUE}

\* the data of the last statement a session issued for vehicle v
LastWrite(tx, v) ==
    LET idx == {i \in 1..Len(tx) : tx[i].data.vehicle_id = v}
    IN  tx[CHOOSE i \in idx : \A j \in idx : j <= i].data

WrittenIds(tx) == {tx[i].data.vehicle_id : i \in 1..Len(tx)}

\* the session of cycle p reaches its commit in this step
CommitStep(p) ==
    /\ poll_pc[p] = "processing"
    /\ poll_pc'[p] = "returned"
    /\ poll_error'[p] # "db"

\* a CRUD upsert happens in this step
CrudStep == store' # store /\ UNCHANGED pollVars

\* C5: the store never holds two rows of one vehicle_id, and when a cycle has
\* upserted its entities and commits, every vehicle_id it wrote has exactly
\* one row, which is the cycle's last write for it.
C5_OneRowLastWrite ==
    [][/\ \A v \in VehicleIds : Cardinality(RowsOf(store', v)) <= 1
       /\ \A p \in Pollers :
            CommitStep(p) =>
               \A v \in WrittenIds(poll_tx[p]) :
                  /\ Cardinality(RowsOf(store', v)) = 1
                  /\ \A r \in RowsOf(store', v) : r = WithId(LastWrite(poll_tx[p], v), r.id)]_vars

\* C6: after a write for a vehicle_id, byId returns a row whose every field is
\* the written record: the ingested one (current_status 2 and occupancy_status 5
\* included) after a committed cycle, the upsert's values (nothing else) after
\* a CRUD upsert.
C6_WriteReplacesRow ==
    [][/\ \A p \in Pollers :
            (CommitStep(p) /\ poll_result'[p]) =>
               \A v \in WrittenIds(poll_tx[p]) :
                  \A r \in byId(store', v) : r = WithId(LastWrite(poll_tx[p], v), r.id)
       /\ CrudStep =>
            \A r \in store' \ store :
               /\ byId(store', r.vehicle_id) = {r}
               /\ r = WithId(CrudValues(r.vehicle_id, 1, 37, 122, NULL, NULL, 1, NULL), r.id)]_vars

\* C7: the timestamp of the row stored for a vehicle_id never decreases.
C7_NewestTimestampWins ==
    [][\A r \in store : \A r2 \in store' :
          r.vehicle_id = r2.vehicle_id => r2.timestamp >= r.timestamp]_vars

\* C8: the committed table, which is all a reader sees, changes for a cycle
\* only at its commit and then by all of the cycle's statements at once; the
\* steps of a cycle before its commit, and a cycle that fails, change no row.
C8_CycleIsAtomic ==
    [][\A p \in Pollers :
          /\ (poll_pc[p] = "processing" /\ poll_pc'[p] = "processing"
                /\ poll_n'[p] # poll_n[p]) => store' = store
          /\ (poll_pc[p] = "processing" /\ poll_pc'[p] = "returned") =>
                IF poll_result'[p]
                THEN store' = ApplyTx(store, poll_tx[p]).rows
                ELSE store' = store]_vars

\* one cycle is part-way with work the table does not show, after another
\* cycle failed and left the committed rows as they were
C8_Witness ==
    \E p \in Pollers, q \in Pollers :
        /\ poll_pc[p] = "processing"
        /\ Len(poll_tx[p]) >= 1
        /\ ApplyTx(store, poll_tx[p]).rows # store
        /\ poll_pc[q] = "returned"
        /\ ~poll_result[q]
        /\ store # {}

\* ====================================================================
\* Properties of the prediction store
\* ====================================================================

\* C9: the store never holds two active predictions for one (stop_id, trip_id).
C9_NoDuplicateActive ==
    \A a \in ActiveAt(stop_predictions, now) : \A b \in ActiveAt(stop_predictions, now) :
        (a.stop_id = b.stop_id /\ a.trip_id = b.trip_id) => a = b

\* C10: a by-stop, by-route, by-vehicle or stop-info query made at time now returns no
\* prediction whose expires_at is set and is not later than now.
C10_QueryExcludesExpired ==
    [][(query_pc = "idle" /\ query_pc' = "responded") =>
          \A r \in query_result' : r.expires_at = NULL \/ r.expires_at > now]_vars

\* a query has answered with an active prediction while the table also holds
\* one that matches the query but expired exactly now
C10_Witness ==
    /\ query_pc = "responded"
    /\ query_result # {}
    /\ \E r \in stop_predictions \ query_result :
          /\ r.expires_at = now
          /\ \E q \in query_result : q.stop_id = r.stop_id /\ q.route_id = r.route_id

\* C11: every stored prediction has an expires_at, and it is not before the
\* row's created_at.
C11_ExpiryNotBeforeCreation ==
    \A r \in stop_predictions :
        r.expires_at # NULL /\ r.expires_at >= r.created_at

\* ====================================================================
\* Properties of the trip-details fusion
\* ====================================================================

\* the stop_time_updates of the update the handler kept, <<>> if it kept none
KeptStopUpdates ==
    IF td_trip_updates = <<>> THEN <<>> ELSE td_trip_updates[1].stop_time_updates

\* the answered list has one entry per scheduled stop, in schedule order, with
\* the stop's scheduled arrival
EntryPerScheduledStop ==
    /\ Len(td_stops) = Len(StopTimes(1))
    /\ \A k \in 1..Len(td_stops) :
          /\ td_stops[k].stop_id = StopTimes(1)[k].stop_id
          /\ td_stops[k].scheduled_arrival = StopTimes(1)[k].arrival_time

\* a stop with a stop_time_update carries the delay of its first one
UpdateIsAuthoritative ==
    \A k \in 1..Len(td_stops) : \A i \in 1..Len(KeptStopUpdates) :
        (/\ KeptStopUpdates[i].stop_id = td_stops[k].stop_id
         /\ \A j \in 1..(i - 1) : KeptStopUpdates[j].stop_id # td_stops[k].stop_id)
        => td_stops[k].arrival_delay = KeptStopUpdates[i].arrival_delay

\* the entries of the stops no stop_time_update names
UnmatchedEntries ==
    {k \in 1..Len(td_stops) :
        \A i \in 1..Len(KeptStopUpdates) : KeptStopUpdates[i].stop_id # td_stops[k].stop_id}

ThresholdLabel(d) ==
    IF d > 300 THEN "delayed" ELSE IF d < -180 THEN "early" ELSE "on_time"

\* C13: a stop with time t <= now is passed and one with t > now is upcoming;
\* an upcoming stop of the trip details and a displayed stop prediction are
\* both labelled delayed iff d > 300, early iff d < -180 and on_time otherwise.
C13_SameThresholds ==
    /\ st_entry # <<>> =>
          /\ st_time <= TripNow => st_entry[1].status = "passed"
          /\ st_time > TripNow =>
                /\ st_entry[1].status = "upcoming"
                /\ st_entry[1].delay_status = ThresholdLabel(st_delay)
    /\ st_display # "unset" => st_display = ThresholdLabel(st_delay)

\* ====================================================================
\* Properties of the time normalizer
\* ====================================================================

\* C14: for 0 <= v < 86400 the normalizer returns (it does not fail) the
\* datetime on ref's date with hour v div 3600, minute (v mod 3600) div 60 and
\* second v mod 60; for v = 86400 it returns 00:00:00 on the next date.
C14_TimeOfDayOnReferenceDate ==
    nt_pc = "returned" =>
        /\ (0 <= nt_time /\ nt_time < 86400) =>
              /\ nt_result # NULL
              /\ nt_result \div 86400 = nt_ref \div 86400
              /\ (nt_result % 86400) \div 3600 = nt_time \div 3600
              /\ ((nt_result % 86400) % 3600) \div 60 = (nt_time % 3600) \div 60
              /\ (nt_result % 86400) % 60 = nt_time % 60
        /\ nt_time = 86400 =>
              /\ nt_result # NULL
              /\ nt_result \div 86400 = nt_ref \div 86400 + 1
              /\ nt_result % 86400 = 0

\* the normalizer has returned for 23:59:59 with a reference in the last
\* second of its day
C14_Witness ==
    /\ nt_pc = "returned"
    /\ nt_time = 86399
    /\ nt_ref % 86400 = 86399
    /\ nt_result = nt_ref

\* C15: for v > 86400 the wall-clock datetime returned, converted back to
\* Unix seconds in the same timezone, is v again.
C15_EpochRoundTrip ==
    (nt_pc = "returned" /\ nt_time > 86400) =>
        /\ nt_result # NULL
        /\ LocalToEpoch(nt_result) = nt_time

\* the entries of the stops whose stop_time_update has an arrival time that
\* the normalizer could not convert
UnconvertedEntries ==
    {k \in 1..Len(td_stops) :
        \E i \in 1..Len(KeptStopUpdates) :
            /\ KeptStopUpdates[i].stop_id = td_stops[k].stop_id
            /\ \A j \in 1..(i - 1) : KeptStopUpdates[j].stop_id # td_stops[k].stop_id
            /\ Truthy(KeptStopUpdates[i].arrival_time)
            /\ convert_gtfs_time_to_datetime(KeptStopUpdates[i].arrival_time, TripNowLocal) = NULL}

\* C16: a time that cannot be converted does not abort the response: the
\* response is built with an entry for every scheduled stop, and the stop
\* whose time failed to convert has status no_data.
C16_UnconvertedIsNoData ==
    td_pc = "responded" =>
        /\ EntryPerScheduledStop
        /\ \A k \in UnconvertedEntries : td_stops[k].status = "no_data"

\* C17: a request that awaits the trip-updates fetch always goes on to
\* answer, also when the fetch never returns; a fetch abandoned at the 5 s
\* timeout leaves no real-time data in the response.
C17_FetchNeverHangs ==
    /\ (td_pc = "fetching") ~> (td_pc = "responded")
    /\ [](td_pc = "fetching" => td_elapsed <= 5)
    /\ []((td_pc = "responded" /\ td_elapsed = 5) =>
            /\ td_trip_updates = <<>>
            /\ \A k \in 1..Len(td_stops) : td_stops[k].status = "no_data")

\* the fetch was abandoned at the timeout and the request answered with
\* schedule-only entries
C17_Witness ==
    /\ td_pc = "responded"
    /\ td_elapsed = FetchTimeout
    /\ Len(td_stops) = 3

NextStatic ==
    \/ \E download_ok \in BOOLEAN, load_ok \in BOOLEAN, version \in FeedVersions :
          UpdateStaticData(download_ok, load_ok, version) /\ FrameSU
    \/ StaticTick /\ FrameSU
    \/ ProcessRestart /\ FrameSU

SpecStatic == Init /\ [][NextStatic]_vars

\* ====================================================================
\* Properties of the periodic loops
\* ====================================================================

\* C18: whatever the static updates do, the real-time task is run again and
\* again: by the real-time loop gathered with the static loop, and by the
\* scheduler that runs both jobs.
C18_RealtimeKeepsRunning ==
    /\ []<>(lp_pc["realtime"] = "run")
    /\ []<>(sch_pc = "initial_realtime")

\* C19: a loop that has ended a run sleeps 5 s when the run failed or raised,
\* and the cadence minus the run's time, at least zero, when it succeeded;
\* then it runs again.
C19_BackoffAndCadence ==
    \A l \in Loops :
        lp_pc[l] = "sleep" =>
            /\ lp_outcome[l] \in {"failed", "raised"} => lp_sleep[l] = 5
            /\ lp_outcome[l] = "ok" =>
                  \E t \in ProcessingTimes :
                      lp_sleep[l] = Max(0, (IF l = "static" THEN 86400 ELSE 30) - t)

\* ====================================================================
\* Properties of the static update
\* ====================================================================

\* a step of the model that is a call of update_static_data
StaticCallStep == su_clock' = su_clock /\ ~(last_static_update # NULL /\ last_static_update' = NULL)

\* C20: a call of update_static_data made less than 24 h after the last
\* successful update of the agency returns success without downloading and
\* leaves the stored schedule and the recorded last-update time as they are;
\* a download happens only when there was no successful update in that window.
C20_FreshnessGate ==
    [][(/\ StaticCallStep
        /\ su_last_success # NULL
        /\ (su_clock - su_last_success) * HalfWindow < 86400)
       => (/\ su_result'
           /\ su_downloads' = su_downloads
           /\ su_schedule' = su_schedule
           /\ last_static_update' = last_static_update)]_vars

\* ====================================================================
\* Properties of the feed fetches and the vehicle snapshot
\* ====================================================================

\* what get_current_vehicles reads: the list of the snapshot, empty without one
SnapshotList ==
    IF vehicle_positions = <<>> THEN <<>> ELSE vehicle_positions[1].vehicles

\* C21: no exception leaves fetch_realtime_vehicles, fetch_trip_updates or a
\* poll cycle (a failure is the value None / False), and a failed fetch or
\* cycle leaves the snapshot and the vehicle store as they were.
C21_FetchFailureIsAValue ==
    /\ [](fx_call.raised = "none" /\ \A p \in Pollers : poll_pc[p] # "raised")
    /\ [][/\ (fx_call'.fn = "fetch_realtime_vehicles" /\ ~fx_call'.ok) =>
                vehicle_positions' = vehicle_positions
          /\ \A p \in Pollers :
                /\ (poll_pc[p] = "processing" /\ poll_pc'[p] = "processing") =>
                      store' = store
                /\ (poll_pc[p] # "returned" /\ poll_pc'[p] = "returned"
                      /\ ~poll_result'[p]) => store' = store]_vars

\* a fetch of the real-time loop timed out and the snapshot of an earlier
\* fetch is still in place, while a poll cycle whose GET failed has returned
\* False and the stored rows are still there
C21_Witness ==
    /\ fx_call.fn = "fetch_realtime_vehicles"
    /\ fx_call.response = "timeout"
    /\ ~fx_call.ok
    /\ SnapshotList # <<>>
    /\ poll_pc[2] = "returned"
    /\ ~poll_result[2]
    /\ poll_error[2] = "http"
    /\ store # {}

\* C30: once a fetch of the real-time loop has succeeded, the snapshot is the
\* list of the latest fetch that succeeded (an empty list included), and
\* get_current_vehicles returns no vehicle that is absent from that list.
C30_SnapshotIsLatestFetch ==
    /\ fx_latest # <<>> => SnapshotList = fx_latest[1]
    /\ (gv_result # <<>> /\ fx_latest # <<>>) =>
          \A i \in 1..Len(gv_result[1]) :
             \E j \in 1..Len(fx_latest[1]) : gv_result[1][i] = fx_latest[1][j]

\* C22: when a cycle ends, by its commit or because one entity could not be
\* decoded or stored, every entity it decoded and validated is in the table
\* with the values of the cycle's last write for its vehicle.
C22_BadEntitySkipped ==
    [][\A p \in Pollers :
          (/\ poll_pc[p] = "processing"
           /\ poll_pc'[p] = "returned"
           /\ poll_error'[p] \in {"none", "decode", "integrity"})
          => \A v \in WrittenIds(poll_tx[p]) :
                \E r \in store' : r = WithId(LastWrite(poll_tx[p], v), r.id)]_vars

\* ====================================================================
\* Properties of the prediction compute
\* ====================================================================

\* the predictions a pass at time t computes for one vehicle row
OwnPredictions(v, t) ==
    IF v.trip_id = NULL \/ v.route_id = NULL THEN <<>>
    ELSE ComputedForStops(v, StopTimes(v.trip_id), t)

\* C23: when a compute pass fails for one vehicle, the predictions of every
\* other vehicle of the pass are stored by that pass.
C23_ComputeFailureIsolated ==
    [][cp_failed_vehicle' # cp_failed_vehicle =>
          \A v \in store :
             v.vehicle_id # cp_failed_vehicle' =>
                \A i \in 1..Len(OwnPredictions(v, now)) :
                   \E r \in stop_predictions' :
                      [r EXCEPT !.id = 0] = OwnPredictions(v, now)[i]]_vars

\* ====================================================================
\* Properties of the service-day rule
\* ====================================================================

\* a seconds-since-midnight value combined with the date of the reference
Combined(v, reference) == FloorDiv(reference, SecondsPerDay) * SecondsPerDay + v

\* the combination advanced by one day when it is more than 6 hours before
\* the reference
ServiceDayRule(v, reference) ==
    IF Combined(v, reference) < reference - SixHours
    THEN Combined(v, reference) + SecondsPerDay
    ELSE Combined(v, reference)

\* C24: for 0 <= v <= 86400 both conversions, of a GTFS-RT numeric time and of
\* a scheduled stop time, return the combination with the reference date,
\* advanced by one day when it is more than 6 hours before the reference; the
\* result is never more than 6 hours before the reference.
C24_NeverSixHoursPast ==
    (nt_pc = "returned" /\ 0 <= nt_time /\ nt_time <= SecondsPerDay) =>
        /\ nt_result = ServiceDayRule(nt_time, nt_ref)
        /\ nt_result >= nt_ref - SixHours
        /\ nt_time < SecondsPerDay =>
              /\ compute_scheduled_datetime(nt_time, nt_ref) = ServiceDayRule(nt_time, nt_ref)
              /\ compute_scheduled_datetime(nt_time, nt_ref) >= nt_ref - SixHours

\* ====================================================================
\* Properties of the retention of vehicle rows
\* ====================================================================

\* vehicle v has a row whose timestamp is more than the window old
HasOldRow(v) == \E r \in RowsOf(store, v) : r.timestamp < now - RetentionMinutes

\* C25: a vehicle's row that has grown older than the retention window is
\* eventually gone (purged, if it is not overwritten), and a step that removes
\* rows removes exactly those older than the window.
C25_RetentionPurges ==
    /\ \A v \in ComputeVehicles : HasOldRow(v) ~> ~HasOldRow(v)
    /\ [][(store' \subseteq store /\ store' # store) => store' = KeptRows(store, now)]_vars

\* ====================================================================
\* Further properties of the connection manager
\* ====================================================================

\* C27: no route_id key of active_connections maps to an empty set.
C27_NoEmptyRouteSet ==
    \A r \in DOMAIN active_connections : active_connections[r] # {}

\* the route's set after the step, empty if the key is gone
ConnsOfNext(r) ==
    IF r \in DOMAIN active_connections' THEN active_connections'[r] ELSE {}

\* C28: a disconnect(conn, route_id) for a connection that is not in the
\* route's set (or whose route has no entry) completes, and leaves the
\* connections of every route as they were.
C28_DisconnectUnregisteredSafe ==
    [][\A c \in Conns :
          (/\ ws_pc[c] = "closing"
           /\ ws_pc'[c] # "closing"
           /\ c \notin ConnsOf(ws_route[c]))
          => /\ ws_pc'[c] = "done"
             /\ \A x \in Routes : ConnsOfNext(x) = ConnsOf(x)]_vars

\* a broadcast removed a connection whose send failed and kept the others of
\* the route; the removed connection's handler has since run its disconnect,
\* and the others are still registered
C28_Witness ==
    \E b \in Broadcasters, c \in Conns :
        /\ bc_pc[b] = "returned"
        /\ c \in bc_disconnected[b]
        /\ ws_pc[c] = "done"
        /\ ws_route[c] = bc_route[b]
        /\ bc_sent[b] # {}
        /\ ConnsOf(bc_route[b]) = bc_sent[b]

\* C26: disconnection is detected lazily by the keep-alive loop: a registered
\* connection whose client has closed is eventually absent from its route's
\* set, through the failed ping and the disconnect() that follows it (or
\* through the cleanup of a broadcast); it is never left registered forever.
C26_ClosedConnectionEventuallyRemoved ==
    \A c \in Conns, r \in Routes :
        (c \in ConnsOf(r) /\ ~ws_alive[c]) ~> (c \notin ConnsOf(r))

\* a handler whose ping failed has run disconnect() with no broadcast involved,
\* while another connection of the same route stays registered
C26_Witness ==
    \E c \in Conns, d \in Conns :
        /\ d # c
        /\ ws_pc[c] = "done"
        /\ ~ws_alive[c]
        /\ c \notin ConnsOf(ws_route[c])
        /\ d \in ConnsOf(ws_route[c])
        /\ \A b \in Broadcasters : bc_pc[b] = "idle"

\* ====================================================================
\* Properties of concurrent static updates
\* ====================================================================

\* C29: when the startup task, the daily loop and the manual trigger call
\* update_static_data for the agency concurrently, at most one of them is in
\* its download-and-load at a time, and two completed download-and-loads are
\* at least one 24 h freshness window apart.
C29_OneDownloadPerWindow ==
    /\ Cardinality(InProgress) <= 1
    /\ \A i \in 1..Len(sc_loads), j \in 1..Len(sc_loads) :
          i < j => (sc_loads[j] - sc_loads[i]) * HalfWindow >= StaticInterval

====
